---- MODULE Spec2Model ----
(***************************************************************************)
(* Model of the NPIDB home-health agency scraper: the Playwright backend   *)
(* (app/scraper.py), and the curl_cffi and Selenium backends               *)
(* (app/scraper_curl_cffi.py, app/scraper_selenium.py).                    *)
(*                                                                         *)
(* Strings that the code inspects character-wise (hrefs, URLs) are         *)
(* sequences of tokens; other texts are TLA+ strings drawn from a small    *)
(* set, with the predicates the code evaluates on them tabulated.          *)
(***************************************************************************)
EXTENDS Integers, Sequences, FiniteSets, TLC

\* Python's None
Null == "<None>"

----------------------------------------------------------------------------
(* Bounds of the model *)

\* longest href, in tokens, of the URL-resolution specification
MaxHrefLen == 3
\* most rows (or links) the listing pages of a site carry in total
MaxRows == 2
\* most listing pages that carry rows
MaxContentPages == 2

----------------------------------------------------------------------------
(* URLs as token sequences *)

\* the tokens an href is made of: "http", "s", "://", "/" are those literal
\* characters; "npidb.org" is any text free of them; "a.aspx" is any text
\* that contains ".aspx"
HrefTokens == {"http", "s", "://", "/", "npidb.org", "a.aspx"}

\* tokens that can stand where a URL's host stands
HostTokens == {"http", "s", "npidb.org", "a.aspx"}

\* config.py: BASE_URL = "https://npidb.org/organizations/agencies/home-health_251e00000x"
BASE_URL == <<"http", "s", "://", "npidb.org", "/", "home-health_251e00000x">>

\* the origin written in the f-strings "https://npidb.org{href}"
SITE_ORIGIN == <<"http", "s", "://", "npidb.org">>

\* an attribute that is missing: get_attribute("href") returning None
NoHref == <<Null>>

\* Python truthiness of an Optional href: neither None nor the empty string
TruthyHref(h) == h /= NoHref /\ h /= <<>>

\* str.startswith(tok) for the one-token prefixes "/" and "http"
StartsWith(s, tok) == Len(s) > 0 /\ s[1] = tok

\* tok in s (substring test on a marker token)
Contains(s, tok) == \E i \in 1..Len(s) : s[i] = tok

\* a URL is absolute when it is scheme "http" or "https", "://", and a host
IsAbsoluteUrl(u) ==
    \/ Len(u) >= 3 /\ u[1] = "http" /\ u[2] = "://" /\ u[3] \in HostTokens
    \/ Len(u) >= 4 /\ u[1] = "http" /\ u[2] = "s" /\ u[3] = "://"
                   /\ u[4] \in HostTokens

\* the listing URL f"{BASE_URL}/{state_lower}/?location={location_encoded}"
ListingUrl(st, loc) == BASE_URL \o <<"/", st, "/", "?location=", loc>>

\* the three-way resolution of an href into a detail URL, shared by
\* _extract_agency_from_row, _extract_agency_from_link (base = listing URL)
\* and the curl_cffi backend (base = BASE_URL)
ResolveHref(href, base) ==
    IF StartsWith(href, "/") THEN SITE_ORIGIN \o href
    ELSE IF StartsWith(href, "http") THEN href
    ELSE base \o <<"/">> \o href

\* ".aspx" in href or "home-health_251e00000x" in href
IsDetailHref(href) ==
    Contains(href, "a.aspx") \/ Contains(href, "home-health_251e00000x")

\* WebElement.get_attribute('href') of Selenium: the browser's resolved href
\* property (absolute hrefs unchanged, others resolved against the document)
BrowserHref(href, docUrl) ==
    IF IsAbsoluteUrl(href) THEN href
    ELSE IF StartsWith(href, "/") THEN SITE_ORIGIN \o href
    ELSE docUrl \o <<"/">> \o href

----------------------------------------------------------------------------
(* Texts *)

\* the texts listing rows, cells and links carry in this model
Texts == {"", "  ", "ab", "Acme Home Health", " Best Care ", "Best Care",
          "Name NPI Address", "(919) 555-0100", "27601"}

\* str.strip()
Strip(t) ==
    CASE t = "  " -> ""
      [] t = " Best Care " -> "Best Care"
      [] t = " VA " -> "VA"
      [] t = " Henrico County " -> "Henrico County"
      [] t = " Raleigh" -> "Raleigh"
      [] t = " NC 27601" -> "NC 27601"
      [] t = " nc 27601" -> "nc 27601"
      [] t = " N" -> "N"
      [] OTHER -> t

\* len(t)
TextLen(t) ==
    CASE t = "" -> 0
      [] t = "  " -> 2
      [] t = "ab" -> 2
      [] t = "27601" -> 5
      [] t = "Best Care" -> 9
      [] t = " Best Care " -> 11
      [] t = "(919) 555-0100" -> 14
      [] OTHER -> 16

\* Python truthiness of an Optional[str]
Truthy(t) == t /= Null /\ t /= ""

\* the idiom  x.strip() if x else None
StripOrNone(t) == IF Truthy(t) THEN Strip(t) ELSE Null

\* any(char.isdigit() ...) and len(text without "-", "(", ")", " ") >= 10
PhoneLike(t) == t \in {"(919) 555-0100"}

\* text.replace("-", "").isdigit() and len(text.replace("-", "")) == 5
ZipLike(t) == t \in {"27601"}

\* any(header in text.lower() for header in ["name","npi","address","provider"])
HasHeaderKeyword(t) == t \in {"Name NPI Address", "Carolina Provider Care"}

----------------------------------------------------------------------------
(* Summary extraction from a listing row or link *)

\* index of the first link of a row whose href is a detail-page href, 0 if none
FirstDetailLink(links) ==
    LET hits == {i \in 1..Len(links) :
                    TruthyHref(links[i].href) /\ IsDetailHref(links[i].href)}
    IN IF hits = {} THEN 0 ELSE CHOOSE i \in hits : \A j \in hits : i <= j

\* first of the remaining cells whose stripped text looks like a phone number
RECURSIVE FirstPhone(_)
FirstPhone(cs) ==
    IF cs = <<>> THEN Null
    ELSE IF PhoneLike(Strip(Head(cs))) THEN Strip(Head(cs))
    ELSE FirstPhone(Tail(cs))

\* first of the remaining cells whose stripped text looks like a zip code
RECURSIVE FirstZip(_)
FirstZip(cs) ==
    IF cs = <<>> THEN Null
    ELSE IF Truthy(Strip(Head(cs))) /\ ZipLike(Strip(Head(cs)))
         THEN Strip(Head(cs))
    ELSE FirstZip(Tail(cs))

\* first stripped line of the row text that is longer than 3 characters
RECURSIVE FirstLongLine(_)
FirstLongLine(ls) ==
    IF ls = <<>> THEN Null
    ELSE IF Truthy(Strip(Head(ls))) /\ TextLen(Strip(Head(ls))) > 3
         THEN Strip(Head(ls))
    ELSE FirstLongLine(Tail(ls))

\* the name chain of _extract_agency_from_row: first cell, else first link
\* text, else first long line of the row text, else None
RowAgencyName(row) ==
    LET fromCell == IF Len(row.cells) > 0 THEN StripOrNone(row.cells[1])
                    ELSE Null
        fromLink == IF ~Truthy(fromCell) /\ Len(row.links) > 0
                    THEN StripOrNone(row.links[1].text) ELSE fromCell
    IN IF Truthy(fromLink) THEN fromLink ELSE
       LET fromLine == FirstLongLine(row.lines)
       IN IF fromLine /= Null THEN fromLine ELSE fromLink

\* an Optional[dict] is a sequence of at most one record: <<>> is None
\* _extract_agency_from_row: the summary dict, or None when no detail URL
ExtractAgencyFromRow(row, base_url) ==
    LET k == FirstDetailLink(row.links)
    IN IF k = 0 THEN <<>>
       ELSE << [agency_name |-> RowAgencyName(row),
             city |-> Null,
             state |-> Null,
             zip |-> IF Len(row.cells) > 0 THEN FirstZip(Tail(row.cells))
                     ELSE Null,
             phone |-> IF Len(row.cells) > 0 THEN FirstPhone(Tail(row.cells))
                       ELSE Null,
             detail_url |-> ResolveHref(row.links[k].href, base_url)] >>

\* _extract_agency_from_link: the summary dict, or None when href is missing
ExtractAgencyFromLink(link, base_url) ==
    IF ~TruthyHref(link.href) THEN <<>>
    ELSE LET fromText == StripOrNone(link.text)
         IN << [agency_name |->
                 IF Truthy(fromText) THEN fromText
                 ELSE IF Truthy(link.title) THEN Strip(link.title)
                 ELSE "Unknown Agency",
             city |-> Null, state |-> Null, zip |-> Null, phone |-> Null,
             detail_url |-> ResolveHref(link.href, base_url)] >>

----------------------------------------------------------------------------
(* Arguments of a run *)

\* the arguments of a run
StateArgs == {"NC"}
LocationArgs == {"Raleigh"}

\* arguments as a caller can write them: padded, in either case, with a
\* space inside
RawStateArgs == {"NC", " nc "}
RawLocationArgs == {"Raleigh", " New Bern"}

\* state.strip().lower()
StateLower(st) ==
    CASE st = "NC" -> "nc"
      [] st = " nc " -> "nc"
      [] OTHER -> st

\* urllib.parse.quote_plus(location.strip())
LocationEncoded(loc) ==
    CASE loc = "Raleigh" -> "Raleigh"
      [] loc = " New Bern" -> "New+Bern"
      [] OTHER -> loc

----------------------------------------------------------------------------
(* Records *)

\* models.py: Address() and AuthorizedOfficial() with every field None
EmptyAddress == [street |-> Null, city |-> Null, state |-> Null, zip |-> Null]
EmptyOfficial == [name |-> Null, title |-> Null, telephone |-> Null]

\* a record that carries the normalised arguments
FullRecordNormalised(doc, agency_data, detail_url, st, loc) ==
    [npi |-> doc.npi,
     provider_name |-> IF Truthy(doc.provider_name) THEN doc.provider_name
                       ELSE agency_data.agency_name,
     agency_name |-> agency_data.agency_name,
     address |-> doc.address,
     phone |-> IF Truthy(agency_data.phone) THEN agency_data.phone
               ELSE doc.phone,
     enumeration_date |-> doc.enumeration_date,
     authorized_official |-> doc.authorized_official,
     detail_url |-> detail_url,
     source_state |-> StateLower(st),
     source_location |-> LocationEncoded(loc)]

\* the record _scrape_detail_page returns when the page was read: doc holds
\* what each of its pattern lists found in the page text (Null for a miss)
FullRecord(doc, agency_data, detail_url, st, loc) ==
    [npi |-> doc.npi,
     provider_name |-> IF Truthy(doc.provider_name) THEN doc.provider_name
                       ELSE agency_data.agency_name,
     agency_name |-> agency_data.agency_name,
     address |-> doc.address,
     phone |-> IF Truthy(agency_data.phone) THEN agency_data.phone
               ELSE doc.phone,
     enumeration_date |-> doc.enumeration_date,
     authorized_official |-> doc.authorized_official,
     detail_url |-> detail_url,
     source_state |-> st,
     source_location |-> loc]

\* the partial record of the except branch of _scrape_detail_page
ScrapePartialRecord(agency_data, detail_url, st, loc) ==
    [npi |-> Null,
     provider_name |-> agency_data.agency_name,
     agency_name |-> agency_data.agency_name,
     address |-> EmptyAddress,
     phone |-> agency_data.phone,
     enumeration_date |-> Null,
     authorized_official |-> EmptyOfficial,
     detail_url |-> detail_url,
     source_state |-> st,
     source_location |-> loc]

\* the partial record of the except branch of _extract_agencies_from_page
OpenPartialRecord(agency_data, detail_url, st, loc) ==
    [npi |-> Null,
     provider_name |-> agency_data.agency_name,
     agency_name |-> agency_data.agency_name,
     address |-> [street |-> Null, city |-> agency_data.city,
                  state |-> agency_data.state, zip |-> agency_data.zip],
     phone |-> agency_data.phone,
     enumeration_date |-> Null,
     authorized_official |-> EmptyOfficial,
     detail_url |-> detail_url,
     source_state |-> st,
     source_location |-> loc]

----------------------------------------------------------------------------
(* What the site serves *)

\* listing rows: a table row with a name cell, a phone, a zip and a link
RowFull ==
    [tag |-> "tr",
     cells |-> <<"Acme Home Health", "(919) 555-0100", "27601">>,
     lines |-> <<"Acme Home Health", "(919) 555-0100", "27601">>,
     links |-> << [href |-> <<"/", "a.aspx">>, text |-> "Acme Home Health",
                   title |-> Null] >>,
     href |-> NoHref, text |-> "", title |-> Null]

\* a table row whose only content is an image link: no text anywhere
RowBlank ==
    [tag |-> "tr",
     cells |-> <<"", "  ">>,
     lines |-> <<"", "  ">>,
     links |-> << [href |-> <<"a.aspx">>, text |-> "", title |-> Null] >>,
     href |-> NoHref, text |-> "", title |-> Null]

\* a header row: th cells only, no link
RowHeader ==
    [tag |-> "tr",
     cells |-> <<>>,
     lines |-> <<"Name NPI Address">>,
     links |-> <<>>,
     href |-> NoHref, text |-> "", title |-> Null]

\* a bare anchor to a detail page, without text or title
RowAnchor ==
    [tag |-> "a",
     cells |-> <<>>,
     lines |-> <<"">>,
     links |-> <<>>,
     href |-> <<"/", "home-health_251e00000x", "/", "a.aspx">>,
     text |-> "", title |-> Null]

RowKinds == {RowFull, RowBlank, RowHeader, RowAnchor}

\* a data row of an agency whose name has the word "provider" in it
RowProviderNamed ==
    [tag |-> "tr",
     cells |-> <<"Carolina Provider Care", "(919) 555-0100", "27601">>,
     lines |-> <<"Carolina Provider Care", "(919) 555-0100", "27601">>,
     links |-> << [href |-> <<"/", "a.aspx">>,
                   text |-> "Carolina Provider Care", title |-> Null] >>,
     href |-> NoHref, text |-> "", title |-> Null]

\* the row sequences a listing page can carry
RECURSIVE SeqsUpTo(_, _)
SeqsUpTo(S, n) ==
    IF n = 0 THEN {<<>>}
    ELSE LET shorter == SeqsUpTo(S, n - 1)
         IN shorter \cup {Append(q, x) : q \in shorter, x \in S}

\* what the pattern lists of _scrape_detail_page find on a detail page
DocAll ==
    [npi |-> "1234567890",
     provider_name |-> "Acme Home Health LLC",
     enumeration_date |-> "01/15/2007",
     address |-> [street |-> "123 Main St", city |-> "Raleigh",
                  state |-> "NC", zip |-> "27601"],
     phone |-> "919-555-0199",
     authorized_official |-> [name |-> "Jane Roe", title |-> Null,
                              telephone |-> Null]]

DocNpiOnly ==
    [npi |-> "1234567890",
     provider_name |-> Null,
     enumeration_date |-> Null,
     address |-> EmptyAddress,
     phone |-> Null,
     authorized_official |-> EmptyOfficial]

DocNone ==
    [npi |-> Null,
     provider_name |-> Null,
     enumeration_date |-> Null,
     address |-> EmptyAddress,
     phone |-> Null,
     authorized_official |-> EmptyOfficial]

DetailDocs == {DocAll, DocNpiOnly, DocNone}

\* the two messages an exception can carry, as the handlers tell them apart:
\* "closed" contains 'Target page, context or browser has been closed'
ErrKinds == {"closed", "other"}

----------------------------------------------------------------------------
(* The record locator of _extract_agencies_from_page *)

\* row_selectors, by position
NumRowSelectors == 8

\* selector.startswith("table") or selector == "tbody tr" or selector == "tr"
FiltersHeader(i) == i \in {1, 2, 3, 8}

\* the row selectors that match the elements of a page: table rows are
\* matched by "table tbody tr", "table tr", "tbody tr" and "tr"; a page of
\* other elements is matched by "[class*='agency']" only; a page of bare
\* anchors by none
MatchingSelectors(dom) ==
    IF dom = <<>> THEN {}
    ELSE IF \A i \in 1..Len(dom) : dom[i].tag = "tr" THEN {1, 2, 3, 8}
    ELSE IF \A i \in 1..Len(dom) : dom[i].tag = "a" THEN {}
    ELSE {4}

\* page.query_selector_all(row_selectors[i])
QueryRows(dom, i) == IF i \in MatchingSelectors(dom) THEN dom ELSE <<>>

\* the rows kept from the result of selector i: the first row is dropped when
\* the selector filters headers, there is more than one row and the first
\* row's text has a header keyword
KeepRows(found, i) ==
    IF FiltersHeader(i) /\ Len(found) > 1
       /\ \E k \in 1..Len(found[1].lines) : HasHeaderKeyword(found[1].lines[k])
    THEN Tail(found)
    ELSE found

\* the loop over row_selectors from selector i on; raising is the set of
\* selectors whose query raises (caught, next selector)
RECURSIVE LocateFrom(_, _, _)
LocateFrom(dom, i, raising) ==
    IF i > NumRowSelectors THEN <<>>
    ELSE IF i \notin raising /\ Len(QueryRows(dom, i)) > 0
         THEN KeepRows(QueryRows(dom, i), i)
    ELSE LocateFrom(dom, i + 1, raising)

\* the anchor of a link as an element of its own
AsAnchor(l) ==
    [tag |-> "a", cells |-> <<>>, lines |-> <<l.text>>, links |-> <<>>,
     href |-> l.href, text |-> l.text, title |-> l.title]

\* a[href*="home-health_251e00000x"][href*=".aspx"]
IsFallbackHref(h) ==
    TruthyHref(h) /\ Contains(h, "home-health_251e00000x")
                  /\ Contains(h, "a.aspx")

\* page.query_selector_all of the detail-link fallback: the matching anchors
\* of the page in document order (a row of this model has at most one link)
RECURSIVE DetailLinks(_)
DetailLinks(dom) ==
    IF dom = <<>> THEN <<>>
    ELSE LET e == Head(dom)
             here == IF e.tag = "a"
                     THEN IF IsFallbackHref(e.href) THEN <<e>> ELSE <<>>
                     ELSE IF Len(e.links) > 0 /\ IsFallbackHref(e.links[1].href)
                          THEN <<AsAnchor(e.links[1])>> ELSE <<>>
         IN here \o DetailLinks(Tail(dom))

\* a locator that prefers the detail links of the page to its rows
LocateRowsLinksFirst(dom, raising) ==
    IF DetailLinks(dom) /= <<>> THEN DetailLinks(dom)
    ELSE LocateFrom(dom, 1, raising)

\* rows of _extract_agencies_from_page before the per-row loop
LocateRows(dom, raising) ==
    LET rs == LocateFrom(dom, 1, raising)
    IN IF rs /= <<>> THEN rs ELSE DetailLinks(dom)

----------------------------------------------------------------------------
(* Program constants *)

\* max_retries of scrape_home_health_agencies
max_retries == 3
\* range(10) of the challenge poll of _load_results_page
ListingPolls == 10
\* range(8) of the challenge poll of _scrape_detail_page
DetailPolls == 8
\* the page-count ceiling of _extract_all_agencies
PageLimit == 100
\* len(next_selectors)
NumNextSelectors == 6

\* most rows of a site that offers a next control beyond its content pages
MaxEndlessRows == 0

----------------------------------------------------------------------------
(* State of one run of scrape_home_health_agencies (Playwright backend) *)

VARIABLES
    pc,            \* position of the run
    state,         \* argument state
    location,      \* argument location
    browser,       \* "none" (None), "open" or "closed"
    context,       \* "none" (None), "open" or "closed"
    page,          \* the listing page held by variable page; 0 is None
    made,          \* number of listing pages created so far
    openListing,   \* the listing pages that are open
    openDetail,    \* number of detail pages that are open
    attempt,       \* loop variable of the retry loop
    err,           \* kind of the exception being handled, or "none"
    poll,          \* loop variable i of a challenge poll loop
    page_num,      \* _extract_all_agencies: page_num
    all_agencies,  \* _extract_all_agencies: all_agencies
    agencies,      \* _extract_agencies_from_page: agencies
    rows,          \* _extract_agencies_from_page: rows
    ri,            \* index in rows of the row being processed
    agency_data,   \* summary of the row being processed (Optional[dict])
    sel,           \* index in next_selectors of the selector being tried
    outcome,       \* "running", "returned" or "raised"
    result,        \* the list returned to the caller
    \* history, recorded for the properties only
    loads,         \* number of calls of _load_results_page
    lastLoad,      \* how the latest call of _load_results_page ended
    lastClickAt,   \* page_num at the time of the latest click, 0 if none
    lastExtracted, \* page_num of the latest page passed to extraction
    resolved,      \* detail URLs resolved for the rows of the current page
    fault,         \* what went wrong on the current row's detail page
    served,        \* number of rows the site has served so far
    site           \* the listing pages of a site whose content is fixed in
                   \* advance; <<>> when it is chosen as the run goes

\* state of the curl_cffi and Selenium runs and of the URL resolution
VARIABLES
    backend,       \* "playwright", "curl_cffi" or "selenium"
    hpc,           \* position of the curl_cffi / Selenium run
    session,       \* "none", "open" or "closed": Session / driver
    detail_urls,   \* detail_urls: the list of {'url', 'name'}
    di,            \* index in detail_urls of the link being fetched
    hagencies,     \* agencies of the curl_cffi / Selenium run
    houtcome,      \* "running", "returned" or "raised"
    hfailed,       \* history: indices of detail_urls whose fetch failed
    hlisting,      \* history: how the request of the listing page ended
    hchallenged,   \* history: indices of detail_urls whose page kept the
                   \* challenge title
    uhref,         \* URL resolution: the href of the link
    utag,          \* URL resolution: "tr" (link in a row) or "a" (bare link)
    udone,         \* URL resolution: the link has been processed
    urecord        \* URL resolution: detail_url of the record, if one is made

\* state of the record locator, of the identifier extraction, of the
\* comparison of the backends and of the batch endpoint
VARIABLES
    ldom,          \* locator: the elements of the listing page
    lraising,      \* locator: the row selectors whose query raises
    lrows,         \* locator: rows, as the per-row loop gets them
    ldone,         \* locator: the rows have been located
    ntext,         \* identifier: page_text of a detail page
    nnpi,          \* identifier: npi
    ndone,         \* identifier: the pattern loop has run
    esite,         \* comparison: the listing pages of the site
    eurls,         \* comparison: backend -> detail URLs of its records
    edone,         \* comparison: the three backends have run
    worklist,      \* batch: the rows of counties.csv
    bi,            \* batch: index of the row being processed
    results,       \* batch: results
    bruns,         \* batch history: how the run of each processed row ended
    bpc            \* batch: position of the endpoint

\* a helper function studied on its own, the database behind
\* SupabaseStorage, and the file counties.csv
VARIABLES
    arg,           \* helper: the input of the helper
    ret,           \* helper: what the helper computed
    called,        \* helper: the helper has run
    db,            \* storage: the tables agencies, agency_addresses and
                   \* agency_officials
    lastSaved,     \* storage history: the list of the latest save_agencies
    counties_csv,  \* counties: the rows of counties.csv
    reported       \* counties: the counties of the latest get_counties

pwvars == <<pc, state, location, browser, context, page, made, openListing,
            openDetail, attempt, err, poll, page_num, all_agencies, agencies,
            rows, ri, agency_data, sel, outcome, result, loads, lastLoad,
            lastClickAt, lastExtracted, resolved, fault, served, site>>
hvars == <<hpc, session, detail_urls, di, hagencies, houtcome, hfailed,
           hlisting, hchallenged>>
uvars == <<uhref, utag, udone, urecord>>
lvars == <<ldom, lraising, lrows, ldone>>
nvars == <<ntext, nnpi, ndone>>
evars == <<esite, eurls, edone>>
bvars == <<worklist, bi, results, bruns, bpc>>
callv == <<arg, ret, called>>
dbvars == <<db, lastSaved>>
cvars == <<counties_csv, reported>>
xvars == <<callv, dbvars, cvars>>
fnvars == <<lvars, nvars, evars, bvars, xvars>>
vars == <<pwvars, hvars, uvars, fnvars, backend>>

\* groups of variables, for the UNCHANGED clauses
argv == <<state, location, site>>
resv == <<browser, context, page, made, openListing, openDetail>>
extv == <<page_num, all_agencies, agencies, rows, ri, agency_data, sel,
          lastClickAt, lastExtracted, resolved, fault>>
otherv == <<hvars, uvars, fnvars, backend>>

\* the url of the listing page, as scrape_home_health_agencies builds it
base_url == ListingUrl(StateLower(state), LocationEncoded(location))

\* the locals of a run before its first statement
PwCore ==
    /\ browser = "none"
    /\ context = "none"
    /\ page = 0
    /\ made = 0
    /\ openListing = {}
    /\ openDetail = 0
    /\ attempt = 0
    /\ err = "none"
    /\ poll = 0
    /\ page_num = 1
    /\ all_agencies = <<>>
    /\ agencies = <<>>
    /\ rows = <<>>
    /\ ri = 0
    /\ agency_data = <<>>
    /\ sel = 0
    /\ outcome = "running"
    /\ result = <<>>
    /\ loads = 0
    /\ lastLoad = "none"
    /\ lastClickAt = 0
    /\ lastExtracted = 0
    /\ resolved = <<>>
    /\ fault = "none"
    /\ served = 0

PwRest ==
    /\ state \in StateArgs
    /\ location \in LocationArgs
    /\ site = <<>>
    /\ PwCore

PwInit == pc = "launch" /\ PwRest

PwIdle == pc = "idle" /\ PwRest

HRest ==
    /\ session = "none"
    /\ detail_urls = <<>>
    /\ di = 0
    /\ hagencies = <<>>
    /\ houtcome = "running"
    /\ hfailed = {}
    /\ hlisting = "none"
    /\ hchallenged = {}

HIdle == hpc = "idle" /\ HRest

UIdle ==
    /\ uhref = <<>>
    /\ utag = "a"
    /\ udone = FALSE
    /\ urecord = <<>>

LIdle == ldom = <<>> /\ lraising = {} /\ lrows = <<>> /\ ldone = FALSE

NIdle == ntext = <<>> /\ nnpi = Null /\ ndone = FALSE

EIdle == esite = <<>> /\ eurls = <<>> /\ edone = FALSE

BIdle ==
    /\ worklist = <<>>
    /\ bi = 0
    /\ results = <<>>
    /\ bruns = <<>>
    /\ bpc = "idle"

CallIdle == arg = <<>> /\ ret = <<>> /\ called = FALSE

DbIdle == db = <<>> /\ lastSaved = <<>>

CIdle == counties_csv = <<>> /\ reported = <<>>

XIdle == CallIdle /\ DbIdle /\ CIdle

FnIdle == LIdle /\ NIdle /\ EIdle /\ BIdle /\ XIdle

\* everything but the helper, the database and counties.csv
restv == <<pwvars, hvars, uvars, lvars, nvars, evars, bvars, backend>>

RestIdle == PwIdle /\ HIdle /\ UIdle /\ LIdle /\ NIdle /\ EIdle /\ BIdle

Init ==
    /\ backend = "playwright"
    /\ PwInit
    /\ HIdle
    /\ UIdle
    /\ FnIdle

----------------------------------------------------------------------------
(* scrape_home_health_agencies: browser set-up *)

\* a close() that leaves its page open
ClosePageLeak(open, p) == open

\* page.close(): the page is closed when the call ends; an exception of
\* close() is swallowed by every caller
ClosePage(open, p) == open \ {p}

\* playwright.chromium.launch(): the browser, or an exception
Launch ==
    /\ pc = "launch"
    /\ \/ /\ browser' = "open"
          /\ pc' = "new_context"
          /\ UNCHANGED outcome
       \/ /\ pc' = "finally"
          /\ outcome' = "raised"
          /\ UNCHANGED browser
    /\ UNCHANGED <<state, location, site, context, page, made, openListing,
                   openDetail, attempt, err, poll, page_num, all_agencies,
                   agencies, rows, ri, agency_data, sel, result, loads,
                   lastLoad, lastClickAt, lastExtracted, resolved, fault>>
    /\ UNCHANGED <<otherv, served>>

\* browser.new_context(...): the context, or an exception
NewContext ==
    /\ pc = "new_context"
    /\ \/ /\ context' = "open"
          /\ pc' = "new_page"
          /\ UNCHANGED outcome
       \/ /\ pc' = "finally"
          /\ outcome' = "raised"
          /\ UNCHANGED context
    /\ UNCHANGED <<state, location, site, browser, page, made, openListing,
                   openDetail, attempt, err, poll, page_num, all_agencies,
                   agencies, rows, ri, agency_data, sel, result, loads,
                   lastLoad, lastClickAt, lastExtracted, resolved, fault>>
    /\ UNCHANGED <<otherv, served>>

\* context.new_page(), stealth_async(page), page.add_init_script(...): the
\* first listing page; an exception before or after the page exists
NewPage ==
    /\ pc = "new_page"
    /\ \/ /\ page' = made + 1
          /\ made' = made + 1
          /\ openListing' = openListing \cup {made + 1}
          /\ \/ pc' = "attempt" /\ UNCHANGED outcome
             \/ pc' = "finally" /\ outcome' = "raised"
       \/ /\ pc' = "finally"
          /\ outcome' = "raised"
          /\ UNCHANGED <<page, made, openListing>>
    /\ UNCHANGED <<state, location, site, browser, context, openDetail, attempt,
                   err, poll, page_num, all_agencies, agencies, rows, ri,
                   agency_data, sel, result, loads, lastLoad, lastClickAt,
                   lastExtracted, resolved, fault>>
    /\ UNCHANGED <<otherv, served>>

----------------------------------------------------------------------------
(* scrape_home_health_agencies: the retry loop around the listing load *)

\* top of an iteration of  for attempt in range(max_retries): on a retry the
\* old page is closed and a new one created (an exception of new_page,
\* stealth_async or add_init_script goes to the handler of the loop)
BeginAttempt ==
    /\ pc = "attempt"
    /\ IF attempt > 0
       THEN \/ /\ page' = made + 1
               /\ made' = made + 1
               /\ openListing' = ClosePage(openListing, page) \cup {made + 1}
               /\ \/ pc' = "goto" /\ UNCHANGED err
                  \/ \E k \in ErrKinds : pc' = "handler" /\ err' = k
            \/ /\ openListing' = ClosePage(openListing, page)
               /\ \E k \in ErrKinds : pc' = "handler" /\ err' = k
               /\ UNCHANGED <<page, made>>
       ELSE /\ pc' = "goto"
            /\ UNCHANGED <<page, made, openListing, err>>
    /\ UNCHANGED <<argv, browser, context, openDetail, attempt, poll, loads,
                   lastLoad, extv, outcome, result, otherv, served>>

\* _load_results_page: page.goto(url, ...) returns or raises
Goto ==
    /\ pc = "goto"
    /\ loads' = loads + 1
    /\ \/ /\ pc' = "title"
          /\ lastLoad' = "running"
          /\ UNCHANGED err
       \/ \E k \in ErrKinds :
            /\ pc' = "handler"
            /\ err' = k
            /\ lastLoad' = k
    /\ UNCHANGED <<argv, resv, attempt, poll, extv, outcome, result, otherv, served>>

\* _load_results_page: title = await page.title(), outside any try; the
\* title is the challenge title or not
Title ==
    /\ pc = "title"
    /\ \/ /\ pc' = "poll"
          /\ poll' = 0
          /\ UNCHANGED <<err, lastLoad>>
       \/ /\ pc' = "wait"
          /\ UNCHANGED <<poll, err, lastLoad>>
       \/ \E k \in ErrKinds :
            /\ pc' = "handler"
            /\ err' = k
            /\ lastLoad' = k
            /\ UNCHANGED poll
    /\ UNCHANGED <<argv, resv, attempt, loads, extv, outcome, result, otherv, served>>

\* one iteration of  for i in range(10)  of _load_results_page: the title is
\* read again; the loop ends when the challenge has cleared, when reading the
\* title raises, or when the range is exhausted
ListingPoll ==
    /\ pc = "poll"
    /\ IF poll < ListingPolls
       THEN \/ pc' = "wait" /\ poll' = 0
            \/ pc' = "poll" /\ poll' = poll + 1
       ELSE pc' = "wait" /\ poll' = 0
    /\ UNCHANGED <<argv, resv, attempt, err, loads, lastLoad, extv, outcome,
                   result, otherv, served>>

\* the loop over selectors_to_try of _load_results_page: every exception of
\* wait_for_selector is caught, so the function returns in every case;
\* _extract_all_agencies then starts with an empty list on page 1
WaitForResults ==
    /\ pc = "wait"
    /\ pc' = "extract"
    /\ lastLoad' = "ok"
    /\ page_num' = 1
    /\ all_agencies' = <<>>
    /\ UNCHANGED <<argv, resv, attempt, err, poll, loads, agencies, rows, ri,
                   agency_data, sel, lastClickAt, lastExtracted, resolved,
                   fault, outcome, result, otherv, served>>

\* a handler that raises on no attempt
HandlerDecisionNoRaise(a, k) ==
    IF k = "closed" /\ a < max_retries - 1 THEN "retry" ELSE "next"

\* what the except branch of the retry loop does with attempt and the error:
\* "retry" (sleep, continue), "raise", or "next" (the branch ends and the
\* for loop goes on to its next iteration)
HandlerDecision(a, k) ==
    IF k = "closed" /\ a < max_retries - 1 THEN "retry"
    ELSE IF a = max_retries - 1 THEN "raise"
    ELSE "next"

\* except Exception as e:  of the retry loop; when the for loop has no
\* iteration left, the function goes on to  return agencies  with the
\* agencies = []  it started from
Handler ==
    /\ pc = "handler"
    /\ IF HandlerDecision(attempt, err) = "raise"
       THEN /\ pc' = "finally"
            /\ outcome' = "raised"
            /\ UNCHANGED <<attempt, result>>
       ELSE IF attempt + 1 < max_retries
       THEN /\ pc' = "attempt"
            /\ attempt' = attempt + 1
            /\ UNCHANGED <<outcome, result>>
       ELSE /\ pc' = "finally"
            /\ outcome' = "returned"
            /\ result' = <<>>
            /\ UNCHANGED attempt
    /\ err' = "none"
    /\ UNCHANGED <<argv, resv, poll, loads, lastLoad, extv, otherv, served>>

----------------------------------------------------------------------------
(* _extract_all_agencies and _extract_agencies_from_page *)

\* the elements a listing page can carry: rows only on the first pages, and
\* no more than MaxRows over the whole site
PageDoms(p) ==
    IF p <= MaxContentPages THEN SeqsUpTo(RowKinds, MaxRows - served)
    ELSE {<<>>}

\* the elements of listing page p: those of the site when its content is
\* fixed in advance (nothing beyond its last page)
PageChoices(p) ==
    IF site = <<>> THEN PageDoms(p)
    ELSE {IF p <= Len(site) THEN site[p].dom ELSE <<>>}

\* the sets of row selectors whose query can raise on one page
RaisingSets == {{}, {1}, 1..NumRowSelectors}

\* a page without rows that ends in the exception handler of the run
AfterLocateRaising(rs) == IF rs = <<>> THEN "handler" ELSE "row"

\* where the run goes once the rows of a page are located: with no row,
\* _extract_agencies_from_page returns its empty list and
\* _extract_all_agencies goes on to the next-page check; otherwise the
\* per-row loop starts
AfterLocate(rs) == IF rs = <<>> THEN "paginate" ELSE "row"

\* an extraction failure that is handed to the retry loop
OnExtractErrorRetry == "handler"

\* the except branch of  while True:  both kinds of exception end in break,
\* and so does a closed page: _extract_all_agencies returns all_agencies
OnExtractError == "return"

\* top of  while True:  the page is closed (break), or the rows of the page
\* are located; the query of the detail-link fallback is outside any try of
\* _extract_agencies_from_page, so its exception ends the loop (break)
ExtractPage ==
    /\ pc = "extract"
    /\ \/ /\ pc' = OnExtractError
          /\ UNCHANGED <<agencies, rows, ri, sel, lastExtracted, resolved,
                         served>>
       \/ \E dom \in PageChoices(page_num), raising \in RaisingSets :
            /\ lastExtracted' = page_num
            /\ served' = served + Len(dom)
            /\ agencies' = <<>>
            /\ resolved' = <<>>
            /\ \/ /\ rows' = LocateRows(dom, raising)
                  /\ pc' = AfterLocate(rows')
                  /\ IF rows' = <<>>
                     THEN sel' = 1 /\ ri' = 0
                     ELSE ri' = 1 /\ UNCHANGED sel
               \/ /\ LocateFrom(dom, 1, raising) = <<>>
                  /\ pc' = OnExtractError
                  /\ UNCHANGED <<rows, ri, sel>>
    /\ UNCHANGED <<argv, resv, attempt, err, poll, loads, lastLoad, page_num,
                   all_agencies, agency_data, lastClickAt, fault, outcome,
                   result, otherv>>

\* the summary of a row: _extract_agency_from_link for an anchor,
\* _extract_agency_from_row for anything else
Summary(row, base) ==
    IF row.tag = "a" THEN ExtractAgencyFromLink(row, base)
    ELSE ExtractAgencyFromRow(row, base)

\* top of  for row in rows:  after the last row the page's agencies are
\* returned and _extract_all_agencies extends all_agencies with them; a row
\* whose evaluation raises or that yields no summary is skipped
Row ==
    /\ pc = "row"
    /\ IF ri > Len(rows)
       THEN /\ all_agencies' = all_agencies \o agencies
            /\ agencies' = <<>>
            /\ rows' = <<>>
            /\ ri' = 0
            /\ resolved' = <<>>
            /\ pc' = "paginate"
            /\ sel' = 1
            /\ UNCHANGED agency_data
       ELSE /\ \/ /\ ri' = ri + 1
                  /\ UNCHANGED <<pc, agency_data, resolved>>
               \/ /\ Summary(rows[ri], base_url) = <<>>
                  /\ ri' = ri + 1
                  /\ UNCHANGED <<pc, agency_data, resolved>>
               \/ /\ Summary(rows[ri], base_url) /= <<>>
                  /\ agency_data' = Summary(rows[ri], base_url)
                  /\ resolved' = Append(resolved, agency_data'[1].detail_url)
                  /\ pc' = "open_detail"
                  /\ UNCHANGED ri
            /\ UNCHANGED <<all_agencies, agencies, rows, sel>>
    /\ UNCHANGED <<argv, resv, attempt, err, poll, loads, lastLoad, page_num,
                   lastClickAt, lastExtracted, fault, outcome, result, otherv, served>>

\* detail_page = await page.context.new_page(): the page, or an exception,
\* caught by the except branch that appends the partial record
OpenDetail ==
    /\ pc = "open_detail"
    /\ \/ /\ openDetail' = openDetail + 1
          /\ pc' = "scrape"
          /\ UNCHANGED <<agencies, fault>>
       \/ /\ agencies' = Append(agencies,
                 OpenPartialRecord(agency_data[1], agency_data[1].detail_url,
                                   state, location))
          /\ fault' = "open"
          /\ pc' = "close_detail"
          /\ UNCHANGED openDetail
    /\ UNCHANGED <<argv, browser, context, page, made, openListing, attempt,
                   err, poll, loads, lastLoad, page_num, all_agencies, rows,
                   ri, agency_data, sel, lastClickAt, lastExtracted, resolved,
                   outcome, result, otherv, served>>

\* what _scrape_detail_page returns when its page is closed: None
ClosedPageResult(data, detail_url, st, loc) == <<>>

\* _scrape_detail_page up to the title check: the page is closed (None is
\* returned), goto or title raises (partial record), the title is the
\* challenge title (poll) or not
Scrape ==
    /\ pc = "scrape"
    /\ \/ /\ agencies' = agencies \o
                 ClosedPageResult(agency_data[1], agency_data[1].detail_url,
                                  state, location)
          /\ fault' = "closed_page"
          /\ pc' = "close_detail"
          /\ UNCHANGED poll
       \/ /\ agencies' = Append(agencies,
                 ScrapePartialRecord(agency_data[1], agency_data[1].detail_url,
                                     state, location))
          /\ fault' = "raise"
          /\ pc' = "close_detail"
          /\ UNCHANGED poll
       \/ /\ pc' = "detail_poll"
          /\ poll' = 0
          /\ UNCHANGED <<agencies, fault>>
       \/ /\ pc' = "parse"
          /\ UNCHANGED <<agencies, fault, poll>>
    /\ UNCHANGED <<argv, resv, attempt, err, loads, lastLoad, page_num,
                   all_agencies, rows, ri, agency_data, sel, lastClickAt,
                   lastExtracted, resolved, outcome, result, otherv, served>>

\* one iteration of  for i in range(8)  of _scrape_detail_page
DetailPoll ==
    /\ pc = "detail_poll"
    /\ IF poll < DetailPolls
       THEN \/ pc' = "parse" /\ poll' = 0
            \/ pc' = "detail_poll" /\ poll' = poll + 1
       ELSE pc' = "parse" /\ poll' = 0
    /\ UNCHANGED <<argv, resv, attempt, err, loads, lastLoad, extv, outcome,
                   result, otherv, served>>

\* the rest of _scrape_detail_page: reading the body text raises (partial
\* record), or the fields are extracted from the text
Parse ==
    /\ pc = "parse"
    /\ \/ /\ agencies' = Append(agencies,
                 ScrapePartialRecord(agency_data[1], agency_data[1].detail_url,
                                     state, location))
          /\ fault' = "raise"
       \/ \E doc \in DetailDocs :
            /\ agencies' = Append(agencies,
                   FullRecord(doc, agency_data[1], agency_data[1].detail_url,
                              state, location))
            /\ UNCHANGED fault
    /\ pc' = "close_detail"
    /\ UNCHANGED <<argv, resv, attempt, err, poll, loads, lastLoad, page_num,
                   all_agencies, rows, ri, agency_data, sel, lastClickAt,
                   lastExtracted, resolved, outcome, result, otherv, served>>

\* a finally block that leaves the detail page open
DetailPagesAfterCloseLeak(n, f) == n

\* the number of open detail pages after  if detail_page: await
\* detail_page.close(): detail_page is None when new_page raised (f = "open")
DetailPagesAfterClose(n, f) == IF f = "open" THEN n ELSE n - 1

\* finally:  if detail_page: await detail_page.close()  and the next row
CloseDetail ==
    /\ pc = "close_detail"
    /\ openDetail' = DetailPagesAfterClose(openDetail, fault)
    /\ fault' = "none"
    /\ agency_data' = <<>>
    /\ ri' = ri + 1
    /\ pc' = "row"
    /\ UNCHANGED <<argv, browser, context, page, made, openListing, attempt,
                   err, poll, loads, lastLoad, page_num, all_agencies,
                   agencies, rows, sel, lastClickAt, lastExtracted, resolved,
                   outcome, result, otherv, served>>

----------------------------------------------------------------------------
(* _extract_all_agencies: pagination *)

\* the attribute values a next control can carry
NextControls == [disabled : {Null, "", "disabled"},
                 aria : {Null, "true", "false"}]

\* not is_disabled and is_aria_disabled != "true"
NextEnabled(ctl) == ~Truthy(ctl.disabled) /\ ctl.aria /= "true"

\* the site offers a next control on the pages that carry rows, and beyond
\* them when it has few rows; a site whose content is fixed in advance
\* offers it on the pages that have one
MayOfferNext ==
    IF site = <<>>
    THEN page_num < MaxContentPages \/ served <= MaxEndlessRows
    ELSE page_num <= Len(site) /\ site[page_num].next

\* a click after which page_num is not incremented
AdvanceStuck(n) == n

\* page_num += 1  after a click
Advance(n) == n + 1

\* a ceiling of one page
AtPageLimitEarly(n) == n > 1

\* if page_num > 100: break
AtPageLimit(n) == n > PageLimit

\* one iteration of  for selector in next_selectors:  the query finds no
\* element, raises, or finds a control; a disabled control is skipped; an
\* enabled one is clicked, and a click that raises is caught (next selector).
\* After a click page_num is incremented and compared with the ceiling.
Paginate ==
    /\ pc = "paginate"
    /\ \/ /\ IF sel < NumNextSelectors
             THEN pc' = "paginate" /\ sel' = sel + 1
             ELSE pc' = "return" /\ sel' = 0
          /\ UNCHANGED <<page_num, lastClickAt>>
       \/ \E ctl \in NextControls :
            /\ MayOfferNext
            /\ IF NextEnabled(ctl)
               THEN /\ lastClickAt' = page_num
                    /\ page_num' = Advance(page_num)
                    /\ sel' = 0
                    /\ pc' = IF AtPageLimit(page_num') THEN "return"
                             ELSE "extract"
               ELSE /\ IF sel < NumNextSelectors
                       THEN pc' = "paginate" /\ sel' = sel + 1
                       ELSE pc' = "return" /\ sel' = 0
                    /\ UNCHANGED <<page_num, lastClickAt>>
    /\ UNCHANGED <<argv, resv, attempt, err, poll, loads, lastLoad,
                   all_agencies, agencies, rows, ri, agency_data,
                   lastExtracted, resolved, fault, outcome, result, otherv, served>>

\* return all_agencies;  agencies = ...;  break;  return agencies
Return ==
    /\ pc = "return"
    /\ result' = all_agencies
    /\ outcome' = "returned"
    /\ pc' = "finally"
    /\ UNCHANGED <<argv, resv, attempt, err, poll, loads, lastLoad, extv,
                   otherv, served>>

\* the finally block of scrape_home_health_agencies
Finally ==
    /\ pc = "finally"
    /\ openListing' = IF page /= 0 THEN ClosePage(openListing, page)
                      ELSE openListing
    /\ context' = IF context /= "none" THEN "closed" ELSE context
    /\ browser' = IF browser /= "none" THEN "closed" ELSE browser
    /\ pc' = "done"
    /\ UNCHANGED <<argv, page, made, openDetail, attempt, err, poll, loads,
                   lastLoad, extv, outcome, result, otherv, served>>

Next ==
    \/ Launch
    \/ NewContext
    \/ NewPage
    \/ BeginAttempt
    \/ Goto
    \/ Title
    \/ ListingPoll
    \/ WaitForResults
    \/ Handler
    \/ ExtractPage
    \/ Row
    \/ OpenDetail
    \/ Scrape
    \/ DetailPoll
    \/ Parse
    \/ CloseDetail
    \/ Paginate
    \/ Return
    \/ Finally

\* one run of the Playwright backend
Spec == Init /\ [][Next]_vars

\* the same run when every step that can be taken is eventually taken: each
\* navigation, selector wait and click completes or times out
FairSpec == Spec /\ WF_vars(Next)

TypeOK ==
    /\ pc \in {"idle", "launch", "new_context", "new_page", "attempt", "goto",
               "title", "poll", "wait", "handler", "extract", "row",
               "open_detail", "scrape", "detail_poll", "parse",
               "close_detail", "paginate", "return", "finally", "done"}
    /\ attempt \in 0..max_retries
    /\ page_num \in 1..(PageLimit + 1)
    /\ outcome \in {"running", "returned", "raised"}
    /\ loads \in 0..max_retries
    /\ lastLoad \in {"none", "running", "ok"} \cup ErrKinds

----------------------------------------------------------------------------
(* A run over a site of two listing pages on which nothing fails *)

\* rows with a valid detail link
ValidRows == {RowFull, RowBlank}

\* a first page with a header row, two valid rows and a next link, and a
\* second page with one valid row and no next control
ScenarioSites ==
    { << [dom |-> <<RowHeader, a, b>>, next |-> TRUE],
         [dom |-> <<c>>, next |-> FALSE] >> :
      a \in ValidRows, b \in ValidRows, c \in ValidRows }

ScenarioInit ==
    /\ backend = "playwright"
    /\ pc = "launch"
    /\ state \in StateArgs
    /\ location \in LocationArgs
    /\ site \in ScenarioSites
    /\ PwCore
    /\ HIdle
    /\ UIdle
    /\ FnIdle

\* a step on which no call of the browser raises, no page is closed under
\* the run, and the next link, where the page has one, is found by the
\* first selector and clicked
NothingFails ==
    /\ outcome' /= "raised"
    /\ pc' /= "handler"
    /\ fault' = "none"
    /\ pc = "extract" =>
          /\ pc' /= "return"
          /\ \E dom \in PageChoices(page_num) : rows' = LocateRows(dom, {})
    /\ (pc = "row" /\ ri <= Len(rows)
           /\ Summary(rows[ri], base_url) /= <<>>) => pc' = "open_detail"
    /\ (pc = "paginate" /\ MayOfferNext) => lastClickAt' = page_num

ScenarioNext ==
    \/ Launch /\ NothingFails
    \/ NewContext /\ NothingFails
    \/ NewPage /\ NothingFails
    \/ BeginAttempt /\ NothingFails
    \/ Goto /\ NothingFails
    \/ Title /\ NothingFails
    \/ ListingPoll /\ NothingFails
    \/ WaitForResults /\ NothingFails
    \/ ExtractPage /\ NothingFails
    \/ Row /\ NothingFails
    \/ OpenDetail /\ NothingFails
    \/ Scrape /\ NothingFails
    \/ DetailPoll /\ NothingFails
    \/ Parse /\ NothingFails
    \/ CloseDetail /\ NothingFails
    \/ Paginate /\ NothingFails
    \/ Return /\ NothingFails
    \/ Finally /\ NothingFails

\* the runs of the Playwright backend over such a site
SpecScenario == ScenarioInit /\ [][ScenarioNext]_vars

----------------------------------------------------------------------------
(* The curl_cffi and Selenium backends *)

\* most links the listing page of an HTTP run carries
MaxLinks == 2

\* for detail_info in detail_urls[:10] of the Selenium backend
SeleniumLimit == 10

Backends == {"playwright", "curl_cffi", "selenium"}

\* the anchors of a listing page: a named detail link, a detail link without
\* text or title, and a link that leads elsewhere
LinkNamed == [href |-> <<"/", "a.aspx">>, text |-> " Best Care ",
              title |-> Null]
LinkBare == [href |-> <<"a.aspx">>, text |-> "", title |-> Null]
LinkOther == [href |-> <<"/", "npidb.org">>, text |-> "ab", title |-> Null]
LinkKinds == {LinkNamed, LinkBare, LinkOther}

\* curl_cffi: the detail URL made from a link that the href filter of
\* soup.find_all keeps, or none (an Optional as a sequence)
CurlDetailUrl(href) ==
    IF TruthyHref(href) /\ IsDetailHref(href)
    THEN <<ResolveHref(href, BASE_URL)>>
    ELSE <<>>

\* Selenium: the href property of a link, kept when it is a detail href
SeleniumDetailUrl(href, docUrl) ==
    IF TruthyHref(href) /\ IsDetailHref(BrowserHref(href, docUrl))
    THEN <<BrowserHref(href, docUrl)>>
    ELSE <<>>

\* curl_cffi: link.get_text(strip=True), else link.get('title', 'Unknown Agency')
CurlName(l) ==
    IF Truthy(Strip(l.text)) THEN Strip(l.text)
    ELSE IF l.title /= Null THEN l.title
    ELSE "Unknown Agency"

\* Selenium: link.text.strip() or link.get_attribute('title') or 'Unknown'
SeleniumName(l) ==
    IF Truthy(Strip(l.text)) THEN Strip(l.text)
    ELSE IF Truthy(l.title) THEN l.title
    ELSE "Unknown"

\* the list detail_urls built from the links of the listing page
RECURSIVE DetailInfos(_, _, _)
DetailInfos(b, links, docUrl) ==
    IF links = <<>> THEN <<>>
    ELSE LET l == Head(links)
             u == IF b = "curl_cffi" THEN CurlDetailUrl(l.href)
                  ELSE SeleniumDetailUrl(l.href, docUrl)
             n == IF b = "curl_cffi" THEN CurlName(l) ELSE SeleniumName(l)
         IN (IF u = <<>> THEN <<>> ELSE << [url |-> u[1], name |-> n] >>)
            \o DetailInfos(b, Tail(links), docUrl)

\* the record of _parse_detail_page (curl_cffi)
CurlRecord(doc, info, st, loc) ==
    [npi |-> doc.npi,
     provider_name |-> IF Truthy(doc.provider_name) THEN doc.provider_name
                       ELSE info.name,
     agency_name |-> info.name,
     address |-> doc.address,
     phone |-> doc.phone,
     enumeration_date |-> doc.enumeration_date,
     authorized_official |-> doc.authorized_official,
     detail_url |-> info.url,
     source_state |-> st,
     source_location |-> loc]

\* the record of _parse_detail_page_selenium
SeleniumRecord(doc, info, st, loc) ==
    [npi |-> doc.npi,
     provider_name |-> IF Truthy(doc.provider_name) THEN doc.provider_name
                       ELSE info.name,
     agency_name |-> info.name,
     address |-> EmptyAddress,
     phone |-> Null,
     enumeration_date |-> Null,
     authorized_official |-> EmptyOfficial,
     detail_url |-> info.url,
     source_state |-> st,
     source_location |-> loc]

\* the links whose detail pages a run fetches
Fetched(b, infos) ==
    IF b = "selenium" /\ Len(infos) > SeleniumLimit
    THEN SubSeq(infos, 1, SeleniumLimit)
    ELSE infos

\* what the exit of the run does to the session: the Selenium backend quits
\* its driver in a finally block; the curl_cffi backend has no such block and
\* never closes its Session
ReleaseSession(b, sess) ==
    IF b = "selenium" /\ sess /= "none" THEN "closed" ELSE sess

HInit ==
    /\ backend \in {"curl_cffi", "selenium"}
    /\ hpc = "start"
    /\ HRest
    /\ PwIdle
    /\ UIdle
    /\ FnIdle

\* session = requests.Session()  /  driver = uc.Chrome(...), which can raise
HStart ==
    /\ hpc = "start"
    /\ \/ /\ session' = "open"
          /\ hpc' = "listing"
          /\ UNCHANGED houtcome
       \/ /\ backend = "selenium"
          /\ houtcome' = "raised"
          /\ hpc' = "finally"
          /\ UNCHANGED session
    /\ UNCHANGED <<detail_urls, di, hagencies, hfailed, hlisting, hchallenged,
                   pwvars, uvars, fnvars, backend>>

\* curl_cffi, listing answered with a status other than 200:  return agencies
StatusOutcome == "returned"

\* agencies after a detail page whose title stays the challenge title:
\* Selenium's wait.until raises TimeoutException, caught by the except
\* branch of the loop (continue); curl_cffi reads no title and parses the
\* page it got, on which no pattern matches
AfterChallenge(b, ags, info, st, loc) ==
    IF b = "selenium" THEN ags
    ELSE Append(ags, CurlRecord(DocNone, info, st, loc))

\* the request of the listing page: it raises (the run raises), answers with
\* a status other than 200 (curl_cffi: the empty list is returned), or gives
\* the page, whose links become detail_urls
HListing ==
    /\ hpc = "listing"
    /\ \/ /\ houtcome' = "raised"
          /\ hlisting' = "error"
          /\ hpc' = "finally"
          /\ UNCHANGED <<detail_urls, di>>
       \/ /\ backend = "curl_cffi"
          /\ houtcome' = StatusOutcome
          /\ hlisting' = "status"
          /\ hpc' = "finally"
          /\ UNCHANGED <<detail_urls, di>>
       \/ \E links \in SeqsUpTo(LinkKinds, MaxLinks) :
            /\ detail_urls' = DetailInfos(backend, links, base_url)
            /\ hlisting' = "ok"
            /\ di' = 1
            /\ hpc' = "detail"
            /\ UNCHANGED houtcome
    /\ UNCHANGED <<session, hagencies, hfailed, hchallenged, pwvars, uvars,
                   fnvars, backend>>

\* one iteration of the loop over detail_urls: the fetch raises or (curl_cffi)
\* answers with a status other than 200, and the link is passed over; or the
\* page is parsed and the record appended, unless parsing raises (None)
HDetail ==
    /\ hpc = "detail"
    /\ IF di > Len(Fetched(backend, detail_urls))
       THEN /\ houtcome' = "returned"
            /\ hpc' = "finally"
            /\ UNCHANGED <<di, hagencies, hfailed, hchallenged>>
       ELSE /\ di' = di + 1
            /\ UNCHANGED <<hpc, houtcome>>
            /\ \/ /\ hfailed' = hfailed \cup {di}
                  /\ UNCHANGED <<hagencies, hchallenged>>
               \/ /\ UNCHANGED <<hagencies, hfailed, hchallenged>>
               \/ /\ hchallenged' = hchallenged \cup {di}
                  /\ hagencies' = AfterChallenge(backend, hagencies,
                                       detail_urls[di], state, location)
                  /\ UNCHANGED hfailed
               \/ \E doc \in DetailDocs :
                    /\ hagencies' = Append(hagencies,
                          IF backend = "curl_cffi"
                          THEN CurlRecord(doc, detail_urls[di], state, location)
                          ELSE SeleniumRecord(doc, detail_urls[di], state,
                                              location))
                    /\ UNCHANGED <<hfailed, hchallenged>>
    /\ UNCHANGED <<session, detail_urls, hlisting, pwvars, uvars, fnvars,
                   backend>>

\* the exit of the run
HFinally ==
    /\ hpc = "finally"
    /\ session' = ReleaseSession(backend, session)
    /\ hpc' = "done"
    /\ UNCHANGED <<detail_urls, di, hagencies, houtcome, hfailed, hlisting,
                   hchallenged, pwvars, uvars, fnvars, backend>>

HNext ==
    \/ HStart
    \/ HListing
    \/ HDetail
    \/ HFinally

\* one run of the curl_cffi or of the Selenium backend
SpecHttp == HInit /\ [][HNext]_vars

----------------------------------------------------------------------------
(* Runs of the three backends with arguments as callers write them *)

\* a site of one listing page with one row and no next control
OneRowSites == { << [dom |-> <<r>>, next |-> FALSE] >> : r \in ValidRows }

ArgsInit ==
    /\ backend \in Backends
    /\ state \in RawStateArgs
    /\ location \in RawLocationArgs
    /\ PwCore
    /\ HRest
    /\ UIdle
    /\ FnIdle
    /\ IF backend = "playwright"
       THEN pc = "launch" /\ hpc = "idle" /\ site \in OneRowSites
       ELSE pc = "idle" /\ hpc = "start" /\ site = <<>>

ArgsNext == Next \/ HNext

\* one run of any backend, whatever fails in it
SpecArgs == ArgsInit /\ [][ArgsNext]_vars

\* the records a run holds or has returned
RunRecords ==
    {agencies[i] : i \in 1..Len(agencies)}
        \cup {all_agencies[i] : i \in 1..Len(all_agencies)}
        \cup {result[i] : i \in 1..Len(result)}
        \cup {hagencies[i] : i \in 1..Len(hagencies)}

\* C14: every record of a run carries the state and location arguments the
\* run was called with, as they were passed
C14_SourceArgsUnchanged ==
    \A r \in RunRecords :
        r.source_state = state /\ r.source_location = location

\* a Playwright run called with a padded lower-case state and a location
\* with a space has returned a record read from the detail page
C14_Witness ==
    /\ pc = "done"
    /\ state = " nc "
    /\ location = " New Bern"
    /\ Len(result) = 1
    /\ result[1].npi /= Null

----------------------------------------------------------------------------
(* Detail URL of the record made from one link, in each backend *)

\* the hrefs of at most n tokens, the empty one included
Hrefs(n) == SeqsUpTo(HrefTokens, n) \cup {NoHref}

\* a table row whose only link has the given href
RowWithLink(href) ==
    [tag |-> "tr",
     cells |-> <<"Acme Home Health">>,
     lines |-> <<"Acme Home Health">>,
     links |-> << [href |-> href, text |-> "Acme Home Health",
                   title |-> Null] >>,
     href |-> NoHref, text |-> "", title |-> Null]

\* a bare anchor with the given href
AnchorWithHref(href) ==
    [tag |-> "a", cells |-> <<>>, lines |-> <<"Acme Home Health">>,
     links |-> <<>>, href |-> href, text |-> "Acme Home Health",
     title |-> Null]

\* detail_url of the record a backend makes from the link, if it makes one
EmittedUrl(b, tag, href, listing) ==
    IF b = "playwright"
    THEN LET d == Summary(IF tag = "a" THEN AnchorWithHref(href)
                          ELSE RowWithLink(href), listing)
         IN IF d = <<>> THEN <<>> ELSE <<d[1].detail_url>>
    ELSE IF b = "curl_cffi" THEN CurlDetailUrl(href)
    ELSE SeleniumDetailUrl(href, listing)

UInit ==
    /\ backend \in Backends
    /\ uhref \in Hrefs(MaxHrefLen)
    /\ utag \in IF backend = "playwright" THEN {"tr", "a"} ELSE {"a"}
    /\ udone = FALSE
    /\ urecord = <<>>
    /\ PwIdle
    /\ HIdle
    /\ FnIdle

\* the backend processes the link
ResolveLink ==
    /\ ~udone
    /\ udone' = TRUE
    /\ urecord' = EmittedUrl(backend, utag, uhref, base_url)
    /\ UNCHANGED <<uhref, utag, backend, pwvars, hvars, fnvars>>

UNext == ResolveLink

\* the resolution of one link's href, for every href and backend
SpecUrl == UInit /\ [][UNext]_vars

----------------------------------------------------------------------------
(* The record locator on one listing page *)

\* the selector at which the loop over row_selectors stops, from selector i
\* on: the first whose query does not raise and returns elements; 0 if none
RECURSIVE ChosenSelector(_, _, _)
ChosenSelector(dom, i, raising) ==
    IF i > NumRowSelectors THEN 0
    ELSE IF i \notin raising /\ Len(QueryRows(dom, i)) > 0 THEN i
    ELSE ChosenSelector(dom, i + 1, raising)

\* any(header in first_row_text.lower() for header in [...]) on a row
LooksLikeHeader(row) ==
    \E k \in 1..Len(row.lines) : HasHeaderKeyword(row.lines[k])

LInit ==
    /\ backend = "playwright"
    /\ ldom \in SeqsUpTo(RowKinds \cup {RowProviderNamed}, MaxRows)
    /\ lraising \in SUBSET (1..NumRowSelectors)
    /\ lrows = <<>>
    /\ ldone = FALSE
    /\ PwIdle
    /\ HIdle
    /\ UIdle
    /\ NIdle
    /\ EIdle
    /\ BIdle
    /\ XIdle

\* _extract_agencies_from_page up to the per-row loop
Locate ==
    /\ ~ldone
    /\ ldone' = TRUE
    /\ lrows' = LocateRows(ldom, lraising)
    /\ UNCHANGED <<ldom, lraising, nvars, evars, bvars, xvars, pwvars, hvars, uvars,
                   backend>>

\* the record locator on every page and for every set of failing queries
SpecLocate == LInit /\ [][Locate]_vars

\* C12: when the rows returned by the chosen selector start with a row whose
\* text has a header keyword, that row is not among the rows used for
\* extraction, whichever selector was chosen and however many rows it
\* returned
C12_HeaderRowExcluded ==
    LET chosen == ChosenSelector(ldom, 1, lraising)
        found == QueryRows(ldom, chosen)
    IN (ldone /\ chosen /= 0 /\ LooksLikeHeader(found[1])) =>
           lrows = Tail(found)

\* the row selectors whose query returns at least one element
ReturningSelectors ==
    {i \in 1..NumRowSelectors :
        i \notin lraising /\ QueryRows(ldom, i) /= <<>>}

C29_DataRowNeverFiltered ==
    (ldone /\ ReturningSelectors /= {}) =>
        LET first == CHOOSE i \in ReturningSelectors :
                         \A j \in ReturningSelectors : i <= j
            found == QueryRows(ldom, first)
        IN FirstDetailLink(found[1].links) /= 0 => lrows = found

----------------------------------------------------------------------------
(* Identifier extraction of _scrape_detail_page *)

\* longest page text, in tokens
MaxTextLen == 3

\* the page text as a sequence of tokens: "NPI #" is the text NPI followed
\* by an optional "#" and an optional ":", "NPI Number" the text NPI Number
\* followed by an optional ":"; a digit token is a maximal run of digits;
\* "word" is any other text
DigitRuns == {"123456789", "1234567890", "9876543210", "12345678901"}
TextTokens == {"NPI #", "NPI Number", "word"} \cup DigitRuns

\* number of digits of a run
DigitCount(t) ==
    CASE t = "123456789" -> 9
      [] t = "1234567890" -> 10
      [] t = "9876543210" -> 10
      [] t = "12345678901" -> 11
      [] OTHER -> 0

\* what (\d{10}) captures at the start of a run of at least 10 digits
First10(t) == IF t = "12345678901" THEN "1234567890" ELSE t

\* the positions at which a pattern matches: a pattern with a label matches
\* where the label is followed by a run of at least 10 digits; the bare
\* pattern (\d{10}) matches at every such run
MatchesAt(text, label) ==
    IF label = ""
    THEN {i \in 1..Len(text) : DigitCount(text[i]) >= 10}
    ELSE {i \in 1..Len(text) :
             /\ text[i] = label
             /\ i < Len(text)
             /\ DigitCount(text[IF i < Len(text) THEN i + 1 ELSE i]) >= 10}

\* re.search(pattern, page_text, re.IGNORECASE): group(1) of the leftmost
\* match, or None
Search(text, label) ==
    LET hits == MatchesAt(text, label)
    IN IF hits = {} THEN Null
       ELSE LET i == CHOOSE k \in hits : \A j \in hits : k <= j
            IN First10(text[IF label = "" THEN i ELSE i + 1])

\* a pattern list that tries the bare pattern first
NpiPatternsBareFirst == <<"", "NPI #", "NPI Number">>

\* npi_patterns, each pattern named by its label ("" for the bare one)
npi_patterns == <<"NPI #", "NPI Number", "">>

\* for pattern in npi_patterns: ... if match: npi = match.group(1); break
RECURSIVE FirstMatch(_, _, _)
FirstMatch(text, patterns, k) ==
    IF k > Len(patterns) THEN Null
    ELSE IF Search(text, patterns[k]) /= Null THEN Search(text, patterns[k])
    ELSE FirstMatch(text, patterns, k + 1)

ExtractNpi(text) == FirstMatch(text, npi_patterns, 1)

NInit ==
    /\ backend = "playwright"
    /\ ntext \in SeqsUpTo(TextTokens, MaxTextLen)
    /\ nnpi = Null
    /\ ndone = FALSE
    /\ PwIdle
    /\ HIdle
    /\ UIdle
    /\ LIdle
    /\ EIdle
    /\ BIdle
    /\ XIdle

\* the pattern loop over page_text
FindNpi ==
    /\ ~ndone
    /\ ndone' = TRUE
    /\ nnpi' = ExtractNpi(ntext)
    /\ UNCHANGED <<ntext, lvars, evars, bvars, xvars, pwvars, hvars, uvars, backend>>

\* identifier extraction over every page text
SpecNpi == NInit /\ [][FindNpi]_vars

\* the 10-digit numbers of a text that follow the label "NPI #"
LabelledNumbers(text) ==
    {text[i + 1] : i \in {k \in 1..(Len(text) - 1) :
                             text[k] = "NPI #" /\ DigitCount(text[k + 1]) = 10}}

\* the 10-digit numbers of a text that follow no label
BareNumbers(text) ==
    {text[i] : i \in {k \in 1..Len(text) :
                         /\ DigitCount(text[k]) = 10
                         /\ IF k = 1 THEN TRUE
                            ELSE text[k - 1] \notin {"NPI #", "NPI Number"}}}

\* C20: the extracted npi is null or has exactly 10 digits; when the text
\* has a 10-digit number labelled "NPI #" and a different bare 10-digit
\* number, the npi is the 10 digits that follow an "NPI #" label, wherever
\* the bare number stands
C20_LabelledNpiWins ==
    ndone =>
        /\ nnpi = Null \/ DigitCount(nnpi) = 10
        /\ (\E a \in LabelledNumbers(ntext), b \in BareNumbers(ntext) : a /= b)
              => \E i \in MatchesAt(ntext, "NPI #") :
                    nnpi = First10(ntext[i + 1])

\* a bare number stands before a different labelled one, and the labelled
\* one is extracted
C20_Witness ==
    /\ ndone
    /\ ntext = <<"9876543210", "NPI #", "1234567890">>
    /\ nnpi = "1234567890"

----------------------------------------------------------------------------
(* The three backends over the same site, when nothing fails *)

\* a listing page of n rows, each with a name, a phone, a zip and a link
LongPage(n) == [i \in 1..n |-> RowFull]

\* first pages: the pages of a few rows, and a page of one row more than the
\* Selenium backend fetches
FirstPageDoms == SeqsUpTo(RowKinds, MaxRows) \cup {LongPage(SeleniumLimit + 1)}

\* the pages behind a next link
LaterPageDoms == {<<RowFull>>, <<RowBlank>>}

\* the sites: each page but the last has an enabled next link
EquivSites ==
    { <<d>> \o rest : d \in FirstPageDoms,
                      rest \in SeqsUpTo(LaterPageDoms, MaxContentPages - 1) }

\* the anchors of a page in document order, as find_all('a', ...) and
\* find_elements(By.CSS_SELECTOR, 'a[...]') see them
RECURSIVE PageLinks(_)
PageLinks(dom) ==
    IF dom = <<>> THEN <<>>
    ELSE LET e == Head(dom)
         IN (IF e.tag = "a"
             THEN << [href |-> e.href, text |-> e.text, title |-> e.title] >>
             ELSE e.links) \o PageLinks(Tail(dom))

\* the detail URLs of the records _extract_agencies_from_page makes from
\* rows, one per row that has a summary
RECURSIVE RowUrls(_, _)
RowUrls(rs, base) ==
    IF rs = <<>> THEN <<>>
    ELSE (IF Summary(Head(rs), base) = <<>> THEN <<>>
          ELSE <<Summary(Head(rs), base)[1].detail_url>>)
         \o RowUrls(Tail(rs), base)

\* Playwright: the records of page p and of the pages behind it
RECURSIVE PlaywrightUrls(_, _, _)
PlaywrightUrls(pages, p, base) ==
    IF p > Len(pages) \/ p > PageLimit THEN <<>>
    ELSE RowUrls(LocateRows(pages[p], {}), base)
         \o PlaywrightUrls(pages, p + 1, base)

\* the url of each entry of detail_urls
InfoUrls(infos) == [i \in 1..Len(infos) |-> infos[i].url]

\* curl_cffi and Selenium: one record per fetched link of the first page
HttpUrls(b, pages, base) ==
    InfoUrls(Fetched(b, DetailInfos(b, PageLinks(pages[1]), base)))

EInit ==
    /\ backend = "playwright"
    /\ esite \in EquivSites
    /\ eurls = <<>>
    /\ edone = FALSE
    /\ PwIdle
    /\ HIdle
    /\ UIdle
    /\ LIdle
    /\ NIdle
    /\ BIdle
    /\ XIdle

\* each backend is run over the site; eurls[1], eurls[2], eurls[3] are the
\* detail URLs of the records of Playwright, curl_cffi and Selenium
RunBackends ==
    /\ ~edone
    /\ edone' = TRUE
    /\ eurls' = << PlaywrightUrls(esite, 1, base_url),
                   HttpUrls("curl_cffi", esite, base_url),
                   HttpUrls("selenium", esite, base_url) >>
    /\ UNCHANGED <<esite, lvars, nvars, bvars, xvars, pwvars, hvars, uvars, backend>>

\* the three backends over every site
SpecEquiv == EInit /\ [][RunBackends]_vars

\* C17: over the same site the three backends return records with the same
\* detail URLs in the same order
C17_BackendsAgree ==
    edone => (eurls[1] = eurls[2] /\ eurls[2] = eurls[3])

----------------------------------------------------------------------------
(* The batch endpoint scrape_home_health_batch *)

\* most rows of counties.csv
MaxWorklist == 2

\* the rows csv.reader yields: an empty line, a row of one field, rows of
\* two fields (plain, padded, with a blank state, with an empty location)
BatchRows ==
    { <<>>, <<"NC">>, <<"NC", "Wake">>, <<" VA ", " Henrico County ">>,
      <<"  ", "Wake">>, <<"NC", "">> }

\* how the run of one row ends: it raises with a message (str(e) of an
\* exception without arguments is ""), or returns a list
RunEnds == {"raise:Timeout", "raise:", "empty", "some"}

Raised(out) == out \in {"raise:Timeout", "raise:"}

\* str(e)
Message(out) == IF out = "raise:Timeout" THEN "Timeout" ELSE ""

\* the list a run returns
RunAgencies(out, st, loc) ==
    IF out = "some"
    THEN << CurlRecord(DocAll,
                       [url |-> SITE_ORIGIN \o <<"/", "a.aspx">>,
                        name |-> "Best Care"], st, loc) >>
    ELSE <<>>

\* a result of a failed row that carries no error
ErrorResultSilent(st, loc, msg) ==
    [state |-> st, location |-> loc, agencies |-> <<>>, error |-> Null]

\* BatchScrapeResult(state, location, agencies=[], error=str(e))
ErrorResult(st, loc, msg) ==
    [state |-> st, location |-> loc, agencies |-> <<>>, error |-> msg]

\* BatchScrapeResult(state, location, agencies=agencies, error=None)
OkResult(st, loc, ags) ==
    [state |-> st, location |-> loc, agencies |-> ags, error |-> Null]

\* a row the loop passes over: fewer than two fields, or a state or a
\* location that is empty once stripped
SkippedRow(row) ==
    IF Len(row) < 2 THEN TRUE
    ELSE ~Truthy(Strip(row[1])) \/ ~Truthy(Strip(row[2]))

BInit ==
    /\ backend = "curl_cffi"
    /\ worklist \in SeqsUpTo(BatchRows, MaxWorklist)
    /\ bi = 0
    /\ results = <<>>
    /\ bruns = <<>>
    /\ bpc = "start"
    /\ PwIdle
    /\ HIdle
    /\ UIdle
    /\ LIdle
    /\ NIdle
    /\ EIdle
    /\ XIdle

\* csv_path.exists() is false (HTTPException 404), open() raises
\* (HTTPException 500), or the file is opened
BOpen ==
    /\ bpc = "start"
    /\ \/ bpc' = "raised" /\ UNCHANGED bi
       \/ bpc' = "rows" /\ bi' = 1
    /\ UNCHANGED <<worklist, results, bruns, lvars, nvars, evars, xvars, pwvars,
                   hvars, uvars, backend>>

\* one iteration of  for row_num, row in enumerate(reader, start=1):  the
\* reader raises (HTTPException 500), the row is passed over, or its run is
\* awaited and a result appended (a failure of storage.save_agencies is
\* caught and changes nothing); after the last row results is returned
BRow ==
    /\ bpc = "rows"
    /\ IF bi > Len(worklist)
       THEN /\ bpc' = "returned"
            /\ UNCHANGED <<bi, results, bruns>>
       ELSE \/ /\ bpc' = "raised"
               /\ UNCHANGED <<bi, results, bruns>>
            \/ /\ SkippedRow(worklist[bi])
               /\ bi' = bi + 1
               /\ UNCHANGED <<bpc, results, bruns>>
            \/ /\ ~SkippedRow(worklist[bi])
               /\ \E out \in RunEnds :
                    LET st == Strip(worklist[bi][1])
                        loc == Strip(worklist[bi][2])
                    IN /\ results' = Append(results,
                             IF Raised(out)
                             THEN ErrorResult(st, loc, Message(out))
                             ELSE OkResult(st, loc, RunAgencies(out, st, loc)))
                       /\ bruns' = Append(bruns, out)
               /\ bi' = bi + 1
               /\ UNCHANGED bpc
    /\ UNCHANGED <<worklist, lvars, nvars, evars, xvars, pwvars, hvars, uvars,
                   backend>>

BNext ==
    \/ BOpen
    \/ BRow

\* one request of the batch endpoint
SpecBatch == BInit /\ [][BNext]_vars

\* the rows of the worklist that have a state and a location, stripped
RECURSIVE WorkItems(_)
WorkItems(w) ==
    IF w = <<>> THEN <<>>
    ELSE (IF SkippedRow(Head(w)) THEN <<>>
          ELSE << <<Strip(Head(w)[1]), Strip(Head(w)[2])>> >>)
         \o WorkItems(Tail(w))

\* C16: the batch returns one result per worklist row that has a state and
\* a location, in worklist order; the result of a row whose run raised has
\* its error set and no agencies, every other result has a null error and
\* the agencies of its run
C16_OneResultPerRow ==
    bpc = "returned" =>
        LET items == WorkItems(worklist)
        IN /\ Len(results) = Len(items)
           /\ \A i \in 1..Len(results) :
                 /\ results[i].state = items[i][1]
                 /\ results[i].location = items[i][2]
                 /\ IF Raised(bruns[i])
                    THEN /\ results[i].error /= Null
                         /\ results[i].agencies = <<>>
                    ELSE /\ results[i].error = Null
                         /\ results[i].agencies =
                               RunAgencies(bruns[i], items[i][1], items[i][2])

\* a batch returned after a run that raised, followed by a run that
\* returned agencies
C16_Witness ==
    /\ bpc = "returned"
    /\ Len(results) = 2
    /\ results[1].error /= Null
    /\ results[2].error = Null
    /\ results[2].agencies /= <<>>

----------------------------------------------------------------------------
(* Properties of the Playwright run *)

\* the record appended for the row being processed
LastRecord == agencies[Len(agencies)]

\* C2: when opening, navigating to or parsing a row's detail page raises, one
\* record is appended for the row, with a non-null agency_name, null npi and
\* enumeration_date and an empty authorized_official
C2_FailedDetailGivesNamedPartial ==
    (pc = "close_detail" /\ fault \in {"open", "raise"}) =>
        /\ Len(agencies) > 0
        /\ LastRecord.detail_url = agency_data[1].detail_url
        /\ LastRecord.agency_name /= Null
        /\ LastRecord.npi = Null
        /\ LastRecord.enumeration_date = Null
        /\ LastRecord.authorized_official = EmptyOfficial

\* C27: the partial record appended when a row's detail page fails carries
\* the summary's zip, city and state in its address and the summary's phone,
\* whether opening the page or scraping it failed
C27_PartialKeepsSummary ==
    (pc = "close_detail" /\ fault \in {"open", "raise"}) =>
        /\ Len(agencies) > 0
        /\ LastRecord.address.zip = agency_data[1].zip
        /\ LastRecord.address.city = agency_data[1].city
        /\ LastRecord.address.state = agency_data[1].state
        /\ LastRecord.phone = agency_data[1].phone

\* C28: when the extraction of a listing page fails, the run is neither
\* retried nor ended by an exception: the records gathered from the pages
\* before it are returned as they are, no control is clicked and no further
\* page is extracted
C28_ExtractErrorReturnsGathered ==
    [][/\ (pc = "extract" /\ pc' \notin {"row", "paginate"}) =>
              /\ pc' = "return"
              /\ all_agencies' = all_agencies
              /\ loads' = loads
              /\ attempt' = attempt
       /\ pc = "return" =>
              /\ pc' = "finally"
              /\ outcome' = "returned"
              /\ result' = all_agencies
              /\ loads' = loads
              /\ lastClickAt' = lastClickAt
              /\ lastExtracted' = lastExtracted
       /\ (pc = "finally" /\ outcome = "returned") =>
              /\ pc' = "done"
              /\ outcome' = outcome
              /\ result' = result
              /\ loads' = loads
              /\ lastClickAt' = lastClickAt
              /\ lastExtracted' = lastExtracted]_vars

C28_Witness ==
    /\ pc = "done"
    /\ outcome = "returned"
    /\ page_num = 2
    /\ lastExtracted = 1
    /\ result /= <<>>
    /\ result = all_agencies

\* C4: when the rows of a page have all been processed, the page's result
\* holds exactly one record for every row whose detail URL resolved, in row
\* order
C4_OneRecordPerResolvedRow ==
    (pc = "row" /\ ri > Len(rows)) =>
        /\ Len(agencies) = Len(resolved)
        /\ \A i \in 1..Len(agencies) : agencies[i].detail_url = resolved[i]

\* C5: only pages 1 to 100 are extracted, and no next control is clicked
\* once the current page number has reached 100
C5_NoAdvanceFromPage100 ==
    /\ lastExtracted <= 100
    /\ lastClickAt < 100

\* C6: every run ends (returns or raises); the load loop runs at most 3
\* times, a challenge poll loop at most 10 times and the pagination loop
\* advances at most 100 times
C6_RunTerminates ==
    /\ [](loads <= 3 /\ poll <= 10 /\ lastClickAt <= 100 /\ page_num <= 101)
    /\ [](pc = "detail_poll" => poll <= 8)
    /\ <>(pc = "done")

\* a run that ended after three loads and a full pagination
C6_Witness ==
    pc = "done" /\ loads = 3 /\ lastClickAt = 100

\* C7: when the run has ended, every listing page and detail page it opened,
\* the context and the browser are closed
C7_AllClosedAtEnd ==
    pc = "done" =>
        /\ openListing = {}
        /\ openDetail = 0
        /\ context /= "open"
        /\ browser /= "open"

\* a run that replaced its listing page on a retry, lost a detail page (the
\* partial record of the row carries the listing zip) and has ended
C7_Witness ==
    /\ pc = "done"
    /\ made >= 2
    /\ browser = "closed"
    /\ \E i \in 1..Len(result) :
          result[i].npi = Null /\ result[i].address.zip /= Null

\* C9: the listing load is attempted at most 3 times, and once the third
\* attempt has failed the run raises and returns no list
C9_ThirdFailureRaises ==
    /\ loads <= 3
    /\ (loads = max_retries /\ lastLoad \in ErrKinds /\ pc /= "handler") =>
           (outcome = "raised" /\ result = <<>>)

\* a run that ended after its third load failed
C9_Witness ==
    pc = "done" /\ loads = max_retries /\ lastLoad \in ErrKinds

\* C10: a load failure without the target-closed signature is followed by
\* no further load attempt
C10_OtherFailureNotRetried ==
    [][lastLoad = "other" => loads' = loads]_vars

\* the detail URL the summary of a row carries
RowUrl(row) == Summary(row, base_url)[1].detail_url

\* C13: over a first page with a header row, two valid rows and a next link
\* and a second page with one valid row and no next control, the run
\* returns three records, the two of page 1 followed by the one of page 2,
\* after exactly one advance
C13_TwoPageScenario ==
    /\ Len(all_agencies) <= 3
    /\ lastClickAt <= 1
    /\ pc = "done" =>
          /\ outcome = "returned"
          /\ Len(result) = 3
          /\ result[1].detail_url = RowUrl(site[1].dom[2])
          /\ result[2].detail_url = RowUrl(site[1].dom[3])
          /\ result[3].detail_url = RowUrl(site[2].dom[1])
          /\ lastClickAt = 1
          /\ lastExtracted = 2

\* such a run has ended, with records of rows with and without a name
C13_Witness ==
    /\ pc = "done"
    /\ Len(result) = 3
    /\ result[1].agency_name = Null
    /\ result[3].npi /= Null
    /\ lastClickAt = 1

\* C18: at most one detail page is open at any time; none is open when the
\* detail page of a row is about to be opened, nor when the listing page is
\* extracted or advanced
C18_OneDetailPageAtATime ==
    /\ openDetail <= 1
    /\ pc \in {"open_detail", "row", "extract", "paginate", "return"} =>
          openDetail = 0

\* the detail page of the second row is open, after the first row's record
C18_Witness ==
    /\ pc = "scrape"
    /\ ri = 2
    /\ openDetail = 1
    /\ Len(agencies) = 1

\* C11: a run that extracted pages and was served no row at all does not
\* raise: it goes through the next-page check and returns the empty list
C11_EmptyPagesReturnEmpty ==
    (lastExtracted >= 1 /\ served = 0) =>
        /\ outcome /= "raised"
        /\ all_agencies = <<>>
        /\ pc \notin {"handler", "row"}
        /\ pc = "done" => (outcome = "returned" /\ result = <<>>)

\* a run that found no row on pages 1 and 2, advanced twice and returned
C11_Witness ==
    /\ pc = "done"
    /\ served = 0
    /\ lastExtracted >= 2
    /\ lastClickAt >= 2
    /\ outcome = "returned"

----------------------------------------------------------------------------
(* Properties of the detail URL and of the curl_cffi and Selenium runs *)

\* C1: the detail_url of every record is non-empty and absolute, whatever
\* href the link carries
C1_DetailUrlAbsolute ==
    udone => \A i \in 1..Len(urecord) :
                 urecord[i] /= <<>> /\ IsAbsoluteUrl(urecord[i])

\* C3: a link whose detail fetch failed still has a partial record (its
\* detail URL and name, null npi) in the result of the run
C3_FailedFetchGivesPartial ==
    (hpc = "done" /\ houtcome = "returned") =>
        \A i \in hfailed :
            \E j \in 1..Len(hagencies) :
                /\ hagencies[j].detail_url = detail_urls[i].url
                /\ hagencies[j].agency_name = detail_urls[i].name
                /\ hagencies[j].npi = Null

\* C15: a run whose listing request failed (it raised, or was answered with
\* a status other than 200) raises; it does not return a list
C15_FailedListingRaises ==
    (hpc = "done" /\ hlisting \in {"error", "status"}) =>
        houtcome = "raised"

\* C19: a detail page whose title stays the challenge title does not fail
\* the run and does not cost its record: the run returns, with a record for
\* every such link
C19_ChallengeKeepsRecord ==
    (hpc = "done" /\ hchallenged /= {}) =>
        /\ houtcome = "returned"
        /\ \A i \in hchallenged :
              \E j \in 1..Len(hagencies) :
                  hagencies[j].detail_url = detail_urls[i].url

----------------------------------------------------------------------------
(* Address parsing of a detail page *)

MaxSegments == 3

\* the comma-separated segments an address line is made of
AddrSegments == {"123 Main St", " Raleigh", " NC 27601", " nc 27601", " N", ""}

\* len(state_zip) of a stripped segment
SegLen(t) ==
    CASE t = "" -> 0
      [] t = "N" -> 1
      [] t = "Raleigh" -> 7
      [] t = "123 Main St" -> 11
      [] OTHER -> 8

\* re.match(r"([A-Z]{2})\s+(\d{5}(?:-\d{4})?)", state_zip): groups 1 and 2,
\* <<>> when the segment does not match
StateZipMatch(t) == IF t = "NC 27601" THEN <<"NC", "27601">> ELSE <<>>

\* state_zip[:2]
FirstTwo(t) ==
    CASE t = "NC 27601" -> "NC"
      [] t = "nc 27601" -> "nc"
      [] t = "Raleigh" -> "Ra"
      [] t = "123 Main St" -> "12"
      [] OTHER -> t

\* state_zip[2:].strip()
AfterTwo(t) ==
    CASE t = "NC 27601" -> "27601"
      [] t = "nc 27601" -> "27601"
      [] t = "Raleigh" -> "leigh"
      [] t = "123 Main St" -> "3 Main St"
      [] OTHER -> ""

\* the state and the zip taken from the third segment: the groups of the
\* match; without a match the Playwright scraper slices the segment and the
\* curl_cffi scraper leaves both unset
StateZip(b, t) ==
    LET m == StateZipMatch(t)
    IN IF m /= <<>>
       THEN [state |-> m[1], zip |-> m[2]]
       ELSE IF b = "playwright"
            THEN [state |-> IF SegLen(t) >= 2 THEN FirstTwo(t) ELSE Null,
                  zip |-> IF SegLen(t) > 2 THEN AfterTwo(t) ELSE Null]
            ELSE [state |-> Null, zip |-> Null]

\* a parse that never looks at the third segment
ParseAddressNoThird(b, parts) ==
    IF Len(parts) >= 2
    THEN [street |-> Strip(parts[1]), city |-> Strip(parts[2]),
          state |-> Null, zip |-> Null]
    ELSE EmptyAddress

\* parts = address_text.split(","), the Address filled from them
ParseAddress(b, parts) ==
    IF Len(parts) >= 2
    THEN LET sz == IF Len(parts) >= 3
                   THEN StateZip(b, Strip(parts[3]))
                   ELSE [state |-> Null, zip |-> Null]
         IN [street |-> Strip(parts[1]), city |-> Strip(parts[2]),
             state |-> sz.state, zip |-> sz.zip]
    ELSE EmptyAddress

\* a non-empty address line, given by its segments, on a detail page of the
\* Playwright or of the curl_cffi scraper
AddrInit ==
    /\ backend \in {"playwright", "curl_cffi"}
    /\ arg \in SeqsUpTo(AddrSegments, MaxSegments) \ {<<>>}
    /\ ret = <<>>
    /\ called = FALSE
    /\ DbIdle
    /\ CIdle
    /\ RestIdle

ParseAddressLine ==
    /\ ~called
    /\ ret' = ParseAddress(backend, arg)
    /\ called' = TRUE
    /\ UNCHANGED <<arg, dbvars, cvars, restv>>

SpecAddress == AddrInit /\ [][ParseAddressLine]_vars

\* what a field of an Address can hold after parsing
AddrValues ==
    {Null, ""} \cup {Strip(t) : t \in AddrSegments}
               \cup {FirstTwo(Strip(t)) : t \in AddrSegments}
               \cup {AfterTwo(Strip(t)) : t \in AddrSegments}

\* C21: an address line is split positionally: the first two segments are
\* street and city, a third segment of the form 'ST 12345' gives state 'ST'
\* and zip '12345', a line of two segments leaves state and zip null, and
\* every line is parsed to an Address (nothing is raised)
C21_AddressSplitPositionally ==
    called =>
        /\ ret \in [street : AddrValues, city : AddrValues,
                    state : AddrValues, zip : AddrValues]
        /\ IF Len(arg) >= 3
           THEN StateZipMatch(Strip(arg[3])) /= <<>> =>
                    ret = [street |-> Strip(arg[1]), city |-> Strip(arg[2]),
                           state |-> "NC", zip |-> "27601"]
           ELSE TRUE
        /\ Len(arg) = 2 =>
               ret = [street |-> Strip(arg[1]), city |-> Strip(arg[2]),
                      state |-> Null, zip |-> Null]

C21_Witness ==
    /\ called
    /\ arg = <<"123 Main St", " Raleigh", " NC 27601">>
    /\ ret.zip = "27601"

----------------------------------------------------------------------------
(* The selector loop of the paginator, over the controls its queries find *)

MaxControls == 2

\* index of the first control that passes the test of the loop, 0 when
\* every control is passed over: the loop clicks it and breaks
RECURSIVE FirstClicked(_, _)
FirstClicked(ctls, i) ==
    IF i > Len(ctls) THEN 0
    ELSE IF NextEnabled(ctls[i]) THEN i
    ELSE FirstClicked(ctls, i + 1)

\* the controls that the next selectors find on a page, in selector order
ControlsInit ==
    /\ backend = "playwright"
    /\ arg \in SeqsUpTo(NextControls, MaxControls)
    /\ ret = 0
    /\ called = FALSE
    /\ DbIdle
    /\ CIdle
    /\ RestIdle

\* for selector in next_selectors:  up to the click or to the end
PickNext ==
    /\ ~called
    /\ ret' = FirstClicked(arg, 1)
    /\ called' = TRUE
    /\ UNCHANGED <<arg, dbvars, cvars, restv>>

SpecControls == ControlsInit /\ [][PickNext]_vars

\* C22: the control that is clicked carries no disabled attribute, whatever
\* its value, and no aria-disabled='true'
C22_DisabledNeverClicked ==
    (called /\ ret /= 0) =>
        /\ arg[ret].disabled = Null
        /\ arg[ret].aria /= "true"

----------------------------------------------------------------------------
(* The summary of one listing row *)

MaxCells == 2

\* the texts of the cells and of the link of a row
CellTexts == {"", "ab", "Acme Home Health", " Best Care "}
LinkTexts == {"", "  ", "Acme Home Health"}

\* a table row with one link to a detail page; its text is the text of its
\* cells and of its link, one per line
SummaryRow(cells, linkText, href) ==
    [tag |-> "tr",
     cells |-> cells,
     lines |-> Append(cells, linkText),
     links |-> << [href |-> href, text |-> linkText, title |-> Null] >>,
     href |-> NoHref, text |-> "", title |-> Null]

SummaryRows ==
    {SummaryRow(cs, lt, h) : cs \in SeqsUpTo(CellTexts, MaxCells),
                             lt \in LinkTexts,
                             h \in {<<"/", "a.aspx">>, <<"a.aspx">>}}

SummaryInit ==
    /\ backend = "playwright"
    /\ arg \in SummaryRows
    /\ ret = <<>>
    /\ called = FALSE
    /\ DbIdle
    /\ CIdle
    /\ RestIdle

\* agency_data = await _extract_agency_from_row(row, base_url)
SummariseRow ==
    /\ ~called
    /\ ret' = ExtractAgencyFromRow(arg, base_url)
    /\ called' = TRUE
    /\ UNCHANGED <<arg, dbvars, cvars, restv>>

SpecSummary == SummaryInit /\ [][SummariseRow]_vars

\* the row shows some text
HasText(row) == \E i \in 1..Len(row.lines) : Truthy(Strip(row.lines[i]))

\* C23: the summary of a row that shows some text and has a resolvable
\* detail link carries a name that is neither null nor empty
C23_RowNameNeverEmpty ==
    (called /\ HasText(arg) /\ ret /= <<>>) => Truthy(ret[1].agency_name)

----------------------------------------------------------------------------
(* SupabaseStorage.save_agencies *)

MaxSaveList == 2
MaxDbRows == 2

\* the calls to the database made for one agency: select, update or insert,
\* and delete and insert on agency_addresses and on agency_officials
NumDbCalls == 6

\* the agencies a caller saves: with an NPI or, like a partial record,
\* without one
StoreAgencies ==
    [npi : {Null, "1234567890"},
     agency_name : {"Acme Home Health"}]

EmptyDb == [agencies |-> <<>>, addresses |-> <<>>, officials |-> <<>>]

\* select("id").eq("npi", agency.npi): index of the first row with the NPI,
\* 0 if there is none; the query is made only  if agency.npi
ExistingRow(tbl, npi) ==
    LET hits == {i \in 1..Len(tbl) : tbl[i].npi = npi}
    IN IF ~Truthy(npi) \/ hits = {} THEN 0
       ELSE CHOOSE i \in hits : \A j \in hits : i <= j

\* delete().eq("agency_id", id)
DeleteFor(tbl, id) == SelectSeq(tbl, LAMBDA r : r.agency_id /= id)

\* the body of  for agency in agencies:  for one agency; f is the call that
\* raises (0: none, 1: the select, 2: the update or insert, 3 and 4: the
\* delete and the insert of the address, 5 and 6: those of the official).
\* The calls before f have taken effect; the exception is caught and
\* counted.
SaveOne(d, a, f) ==
    LET k == ExistingRow(d.agencies, a.npi)
        raised == f /= 0 /\ (f > 1 \/ Truthy(a.npi))
        wrote == ~raised \/ f > 2
        id == IF k /= 0 THEN d.agencies[k].id ELSE Len(d.agencies) + 1
        row == [id |-> id, npi |-> a.npi, agency_name |-> a.agency_name]
        ags == IF ~wrote THEN d.agencies
               ELSE IF k /= 0 THEN [d.agencies EXCEPT ![k] = row]
               ELSE Append(d.agencies, row)
        ads == IF ~raised \/ f > 4
               THEN Append(DeleteFor(d.addresses, id), [agency_id |-> id])
               ELSE IF wrote /\ f = 4 THEN DeleteFor(d.addresses, id)
               ELSE d.addresses
        ofs == IF ~raised
               THEN Append(DeleteFor(d.officials, id), [agency_id |-> id])
               ELSE IF wrote /\ f = 6 THEN DeleteFor(d.officials, id)
               ELSE d.officials
    IN [db |-> [agencies |-> ags, addresses |-> ads, officials |-> ofs],
        error |-> IF raised THEN 1 ELSE 0]

\* the loop over agencies from position i on; fs gives the failing call of
\* each position
RECURSIVE SaveFrom(_, _, _, _, _)
SaveFrom(d, list, fs, i, errors) ==
    IF i > Len(list) THEN [db |-> d, errors |-> errors]
    ELSE LET one == SaveOne(d, list[i], fs[i])
         IN SaveFrom(one.db, list, fs, i + 1, errors + one.error)

StoreInit ==
    /\ backend = "playwright"
    /\ db = EmptyDb
    /\ lastSaved = [list |-> <<>>, errors |-> 0]
    /\ CallIdle
    /\ CIdle
    /\ RestIdle

\* POST /agencies/save: one call of storage.save_agencies
SaveAgencies ==
    /\ \E list \in SeqsUpTo(StoreAgencies, MaxSaveList) :
       \E fs \in [1..Len(list) -> 0..NumDbCalls] :
         LET out == SaveFrom(db, list, fs, 1, 0)
         IN /\ Len(out.db.agencies) <= MaxDbRows
            /\ db' = out.db
            /\ lastSaved' = [list |-> list, errors |-> out.errors]
    /\ UNCHANGED <<callv, cvars, restv>>

SpecStore == StoreInit /\ [][SaveAgencies]_vars

\* C24: a call that saves the list of the call before it, both without an
\* error, adds no row to the agencies table
C24_ResaveInsertsNothing ==
    [][(/\ lastSaved'.list = lastSaved.list
        /\ lastSaved.errors = 0
        /\ lastSaved'.errors = 0)
       => Len(db'.agencies) = Len(db.agencies)]_vars

----------------------------------------------------------------------------
(* The waits of the retry loop of scrape_home_health_agencies *)

\* random.uniform(2.0, 4.0), in tenths of a second
DelayDraws == {20, 25, 30, 40}

\* a failed attempt: the kind of its exception and the number drawn for the
\* wait that may follow it
FailedAttempts == [kind : ErrKinds, draw : DelayDraws]

\* the wait after the failure of attempt a (counted from 0): the drawn
\* number when the message has the closed-target signature and attempts
\* remain, no wait otherwise
RetryDelay(a, failure) ==
    IF failure.kind = "closed" /\ a < max_retries - 1 THEN failure.draw ELSE 0

\* the waits before the second and the third attempt of a run whose
\* attempts fail as given
Delays(failures) ==
    LET n == IF Len(failures) < max_retries THEN Len(failures)
             ELSE max_retries - 1
    IN [i \in 1..n |-> RetryDelay(i - 1, failures[i])]

DelayInit ==
    /\ backend = "playwright"
    /\ arg \in SeqsUpTo(FailedAttempts, max_retries)
    /\ ret = <<>>
    /\ called = FALSE
    /\ DbIdle
    /\ CIdle
    /\ RestIdle

\* for attempt in range(max_retries):  with the given failures
RunAttempts ==
    /\ ~called
    /\ ret' = Delays(arg)
    /\ called' = TRUE
    /\ UNCHANGED <<arg, dbvars, cvars, restv>>

SpecDelay == DelayInit /\ [][RunAttempts]_vars

\* C26: when a run makes a third attempt, the wait before it is longer
\* than the wait before the second
C26_BackoffIncreases ==
    (called /\ Len(ret) >= 2) => ret[2] > ret[1]

----------------------------------------------------------------------------
(* The counties endpoints over counties.csv *)

MaxCsvRows == 3

\* the rows csv.reader yields: a blank line, a row of one column, a row
\* with an empty state, and counties
CsvRows == {<<>>, <<"x">>, <<"", "Raleigh">>, <<"NC", "Raleigh">>,
            <<" VA ", " Henrico County ">>}

\* state.upper().strip()  of the state of a request or of a row
StateUpper(st) == IF st = "nc" THEN "NC" ELSE Strip(st)

\* the counties a request can name
CountyArgs == {<<"nc", "Raleigh">>, <<"VA", " Henrico County ">>}

\* [row for row in reader if row and len(row) >= 2]
CountyRows(file) == SelectSeq(file, LAMBDA row : Len(row) >= 2)

\* get_counties: the rows of two columns or more whose stripped state and
\* location are not empty, each with its row number less one as id
RECURSIVE GetCountiesFrom(_, _)
GetCountiesFrom(file, n) ==
    IF n > Len(file) THEN <<>>
    ELSE LET row == file[n]
             keep == IF Len(row) < 2 THEN FALSE
                     ELSE Truthy(Strip(row[1])) /\ Truthy(Strip(row[2]))
         IN (IF keep
             THEN << [id |-> n - 1, state |-> Strip(row[1]),
                      location |-> Strip(row[2])] >>
             ELSE <<>>) \o GetCountiesFrom(file, n + 1)

\* the duplicate test of add_county
AlreadyListed(existing, st, loc) ==
    \E i \in 1..Len(existing) :
        StateUpper(existing[i][1]) = st /\ Strip(existing[i][2]) = loc

CountiesInit ==
    /\ backend = "playwright"
    /\ counties_csv \in SeqsUpTo(CsvRows, MaxCsvRows)
    /\ reported = <<>>
    /\ CallIdle
    /\ DbIdle
    /\ RestIdle

\* GET /counties
get_counties ==
    /\ reported' = GetCountiesFrom(counties_csv, 1)
    /\ UNCHANGED <<counties_csv, callv, dbvars, restv>>

\* POST /counties: 400 for a county already listed, else the rows of two
\* columns or more are written back with the new county appended
add_county ==
    /\ \E c \in CountyArgs :
         LET existing == CountyRows(counties_csv)
         IN /\ Len(counties_csv) < MaxCsvRows
            /\ IF AlreadyListed(existing, StateUpper(c[1]), Strip(c[2]))
               THEN UNCHANGED counties_csv
               ELSE counties_csv' =
                        Append(existing, <<StateUpper(c[1]), Strip(c[2])>>)
    /\ UNCHANGED <<reported, callv, dbvars, restv>>

\* PUT /counties/{county_id}: 404 outside the rows of two columns or more,
\* else the row at that index is replaced and the rows written back
update_county ==
    /\ \E county_id \in 0..MaxCsvRows, c \in CountyArgs :
         LET counties == CountyRows(counties_csv)
         IN IF county_id >= Len(counties)
            THEN UNCHANGED counties_csv
            ELSE counties_csv' =
                     [counties EXCEPT ![county_id + 1] =
                          <<StateUpper(c[1]), Strip(c[2])>>]
    /\ UNCHANGED <<reported, callv, dbvars, restv>>

\* counties.pop(county_id)
Pop(rs, i) ==
    [k \in 1..(Len(rs) - 1) |-> IF k <= i THEN rs[k] ELSE rs[k + 1]]

\* DELETE /counties/{county_id}: 404 outside the rows of two columns or
\* more, else that row is removed and the rows written back
delete_county ==
    /\ \E county_id \in 0..MaxCsvRows :
         LET counties == CountyRows(counties_csv)
         IN IF county_id >= Len(counties)
            THEN UNCHANGED counties_csv
            ELSE counties_csv' = Pop(counties, county_id)
    /\ UNCHANGED <<reported, callv, dbvars, restv>>

CountiesNext ==
    \/ get_counties
    \/ add_county
    \/ update_county
    \/ delete_county

SpecCounties == CountiesInit /\ [][CountiesNext]_vars

\* C30: while the file is as get_counties read it, every id it reported is
\* the index, among the rows update_county and delete_county work on, of
\* the row of the county it was reported for
C30_ReportedIdDesignatesCounty ==
    LET counties == CountyRows(counties_csv)
    IN reported = GetCountiesFrom(counties_csv, 1) =>
         \A i \in 1..Len(reported) :
           IF reported[i].id >= Len(counties) THEN FALSE
           ELSE /\ Strip(counties[reported[i].id + 1][1]) = reported[i].state
                /\ Strip(counties[reported[i].id + 1][2])
                       = reported[i].location

====
